---------------------------- MODULE Spec2Model ----------------------------
(***************************************************************************)
(* Model of the caption segmenter (src/subtitle_processor.py) and of the   *)
(* composition timeline (src/video_composer.py).                           *)
(*                                                                         *)
(* Times are integers.  In the segmenter a time is a number of ticks.  In  *)
(* the composer a time is a number of seconds and footage lengths are      *)
(* multiples of SlowNum seconds, so that the slowed length                 *)
(* duration / SLOW_MOTION_FACTOR = duration * SlowDen / SlowNum is exact.  *)
(* A text is a sequence of characters, a character a one-element string.   *)
(***************************************************************************)
EXTENDS Integers, Sequences, FiniteSets

VARIABLES
    \* split_text_into_lines: arguments
    data, max_chars, max_duration, min_gap,
    \* split_text_into_lines: locals
    i, subtitles, current_line, current_start, current_chars, pc,
    \* history of the loop: for every emitted line the indices of its first
    \* and last word and the value of current_chars when it was flushed
    flushed,
    \* compose_video: arguments (the lengths of the files they name; the
    \* captions are passed in subtitles)
    voiceover_duration, footage_duration, title_text, music_duration,
    \* compose_video: locals
    background, subtitle_clips, title_clip, final_video, audio_clips,
    \* compose_video: position, and the exception that left it
    cpc, error,
    \* generate_complete_video: the dictionary it returns
    result,
    \* the frame size in compose_video: arguments, and the size of the footage
    aspect_ratio, quality, source_size,
    \* (target_width, target_height), what adapt_vertical_to_format did, the
    \* size of the background clip and the size of the composition
    target_size, adapted, clip_size, frame_size,
    \* the clip a direct call of ensure_even_dimensions returned
    even_clip,
    \* the frame size: position
    fpc,
    \* config.GENERATION_CANCELLED, and the name GENERATION_CANCELLED of
    \* voiceover_generator (None until the module is imported)
    config_cancelled, GENERATION_CANCELLED,
    \* api_manager: current_api_key_index and the index saved in API_KEY_FILE
    current_api_key_index, saved_index,
    \* generate_tts_audio: its arguments
    text_input, voice_name, use_rotation,
    \* the flag of config and the key index when the call was made
    entry,
    \* the calls of generate_content and the files written during the call,
    \* str(e) of the exception caught, the tuple returned
    synthesis_calls, files_written, error_message, tts_result,
    \* the classes of the errors caught so far with the status of each
    signals,
    \* generate_tts_audio: position
    tpc,
    \* a batch operation: which one, its WorkflowMode and its scripts (each
    \* script stands for what will happen to it)
    batch_op, mode, scripts,
    \* the list of results, the success count of the summary, the position
    results, successful, bpc,
    \* generate_batch_videos: kwargs['output_filename'] (None while kwargs has
    \* no such key, the index that the name carries otherwise, 0 for a name
    \* of the caller)
    kwargs,
    \* generate_complete_video: position, the stages run so far with the
    \* outcome of each, the dictionary returned
    gpc, stages, gresult,
    \* format_time: its argument, as the number of milliseconds t whose quotient
    \* t / 1000 is the float passed, and the text returned
    seconds, srt_time,
    \* detect_language: the text (a sequence of code points) and the family
    \* returned (None before the call)
    lang_text, language,
    \* api_manager called directly: whether current_api_key_index is a float,
    \* whether the index file can be parsed and holds a float, the index before
    \* the latest run of get_next_api_key calls and what they returned (the
    \* position of the key, -1 for an exception)
    index_float, index_file, key_start, key_returns, kpc,
    \* a workflow of workflow_manager: the function called and its WorkflowMode,
    \* the steps saved with save_step_result, what was sent to Telegram, the
    \* success of the dictionary returned, the position
    wf_entry, wf_mode, steps, sent, wf_result, wpc,
    \* the threads of the bot inside get_next_api_key: the position of each, the
    \* index it has read, the index it has handed to json.dump, and the index
    \* before either thread started
    thread_pc, thread_index, thread_buffer, race_start

segVars == <<data, max_chars, max_duration, min_gap, i, subtitles,
             current_line, current_start, current_chars, pc, flushed>>

inVars == <<voiceover_duration, footage_duration, title_text, music_duration>>

composeVars == <<inVars, background, subtitle_clips, title_clip, final_video,
                 audio_clips, cpc, error, result>>

frameVars == <<aspect_ratio, quality, source_size, target_size, adapted,
               clip_size, frame_size, even_clip, fpc>>

ttsVars == <<config_cancelled, GENERATION_CANCELLED, current_api_key_index,
             saved_index, text_input, voice_name, use_rotation, entry,
             synthesis_calls, files_written, error_message, tts_result,
             signals, tpc>>

batchVars == <<batch_op, mode, scripts, results, successful, bpc, kwargs>>

pipelineVars == <<gpc, stages, gresult>>

srtVars == <<seconds, srt_time>>

langVars == <<lang_text, language>>

keysVars == <<index_float, index_file, key_start, key_returns, kpc>>

workflowVars == <<wf_entry, wf_mode, steps, sent, wf_result, wpc>>

raceVars == <<thread_pc, thread_index, thread_buffer, race_start>>

lateVars == <<pipelineVars, srtVars, langVars, keysVars, workflowVars,
             raceVars>>

notPipeline == <<segVars, composeVars, frameVars, batchVars, srtVars,
    langVars, keysVars, workflowVars, raceVars>>

notSrt == <<segVars, composeVars, frameVars, ttsVars, batchVars,
    pipelineVars, langVars, keysVars, workflowVars, raceVars>>

notLang == <<segVars, composeVars, frameVars, ttsVars, batchVars,
    pipelineVars, srtVars, keysVars, workflowVars, raceVars>>

notKeys == <<segVars, composeVars, frameVars, batchVars, pipelineVars,
    srtVars, langVars, workflowVars, raceVars>>

notWorkflow == <<segVars, composeVars, frameVars, batchVars, pipelineVars,
    srtVars, langVars, keysVars, raceVars>>

notRace == <<segVars, composeVars, frameVars, batchVars, pipelineVars,
    srtVars, langVars, keysVars, workflowVars>>

vars == <<segVars, composeVars, frameVars, ttsVars, batchVars, lateVars>>

\* the variables an action of one component leaves alone
notSeg == <<composeVars, frameVars, ttsVars, batchVars, lateVars>>

notCompose == <<segVars, frameVars, ttsVars, batchVars, lateVars>>

notFrame == <<segVars, composeVars, ttsVars, batchVars, lateVars>>

notTts == <<segVars, composeVars, frameVars, batchVars, lateVars>>

notBatch == <<segVars, composeVars, frameVars, ttsVars, lateVars>>

----------------------------------------------------------------------------
(* Bounds of the segmenter's inputs *)

MaxWords == 2

MaxTime == 2

\* Python's None, and a value that is not None
None == <<>>

Some(x) == <<x>>

\* the background clip before get_random_subclip_and_slow has run
NoClip ==
    [branch |-> "none", slowed |-> 0, target |-> 0, start_time |-> 0,
     repeats |-> 0, concat |-> 0, duration |-> 0]

\* the characters of  r'[.!?<U+3002><U+FF01><U+FF1F><U+0964>]$'
SentenceEndChars == {".", "!", "?", "U3002", "UFF01", "UFF1F", "U0964"}

WordTexts == { <<"a">>, <<"a", ".">>, <<"a", "a", "a", "a">> }

\* a transcribed word: end >= start (the streams themselves are in any order)
WordInfos ==
    { w \in [word : WordTexts, start : 0..MaxTime, end : 0..MaxTime] :
        w.end >= w.start }

WordStreams == UNION { [1..n -> WordInfos] : n \in 0..MaxWords }

MaxCharsChoices == {3, 5}

MaxDurationChoices == {1, 2}

MinGapChoices == {1, 2}

----------------------------------------------------------------------------
(* split_text_into_lines *)

\* ' '.join(words)
RECURSIVE Join(_)
Join(words) ==
    IF words = <<>> THEN <<>>
    ELSE IF Len(words) = 1 THEN words[1]
    ELSE words[1] \o <<" ">> \o Join(Tail(words))

\* is_sentence_end with the pattern not anchored at the end of the word
is_sentence_endAnywhere(word) ==
    \E k \in 1..Len(word) : word[k] \in SentenceEndChars

is_sentence_end(word) ==
    Len(word) > 0 /\ word[Len(word)] \in SentenceEndChars

\* LineStart without the  "if current_start is None"  guard
LineStartOverwrite(cur_start, start) == start

\* "Start new line": the start recorded for the line the word goes to
LineStart(cur_start, start) ==
    IF cur_start = None THEN start ELSE cur_start[1]

\* the character count after the word is appended
AddChars(chars, word) == chars + Len(word) + 1

CharLimitHit(chars, mc) == chars >= mc

DurationLimitHit(end, line_start, md) == end - line_start >= md

GapToNext(d, k, mg) ==
    k + 1 <= Len(d) /\ d[k + 1].start - d[k].end >= mg

EndOfData(d, k) == k = Len(d)

\* ShouldBreak without the "End of data" test
ShouldBreakNoEnd(d, k, chars, line_start, mc, md, mg) ==
    \/ chars >= mc
    \/ d[k].end - line_start >= md
    \/ (Len(d[k].word) > 0 /\ d[k].word[Len(d[k].word)] \in SentenceEndChars)
    \/ (k + 1 <= Len(d) /\ d[k + 1].start - d[k].end >= mg)

\* should_break after word k (1-based) of d was appended
ShouldBreak(d, k, chars, line_start, mc, md, mg) ==
    \/ CharLimitHit(chars, mc)
    \/ DurationLimitHit(d[k].end, line_start, md)
    \/ is_sentence_end(d[k].word)
    \/ GapToNext(d, k, mg)
    \/ EndOfData(d, k)

\* the dictionary appended to subtitles
SubtitleLine(line, line_start, end) ==
    [text |-> Join(line), start |-> line_start, end |-> end]

\* ResetStart when the flush forgets  current_start = None
ResetStartKeep(line_start) == <<line_start>>

\* current_start after a flush
ResetStart(line_start) == None

\* what adapt_vertical_to_format did, before it has run
NotAdapted ==
    [path |-> "none", crop_offset |-> 0, crop_size |-> 0, zoomed |-> FALSE]

\* no frame size is being computed
FrameIdle ==
    /\ aspect_ratio = "9:16"
    /\ quality = "High Quality"
    /\ source_size = <<0, 0>>
    /\ target_size = <<0, 0>>
    /\ adapted = NotAdapted
    /\ clip_size = <<0, 0>>
    /\ frame_size = <<0, 0>>
    /\ even_clip = None
    /\ fpc = "idle"

\* no call of generate_tts_audio is going on
TtsIdle ==
    /\ config_cancelled = FALSE
    /\ GENERATION_CANCELLED = None
    /\ current_api_key_index = 0
    /\ saved_index = None
    /\ text_input = <<>>
    /\ voice_name = "Puck"
    /\ use_rotation = TRUE
    /\ entry = [cancelled |-> FALSE, index |-> 0]
    /\ synthesis_calls = 0
    /\ files_written = 0
    /\ error_message = None
    /\ tts_result = None
    /\ signals = {}
    /\ tpc = "off"

\* no batch operation is running
BatchIdle ==
    /\ batch_op = "none"
    /\ mode = "auto"
    /\ scripts = <<>>
    /\ results = <<>>
    /\ successful = None
    /\ bpc = "idle"
    /\ kwargs = None

\* generate_complete_video is not running
PipelineIdle ==
    /\ gpc = "idle"
    /\ stages = <<>>
    /\ gresult = None

\* format_time is not running
SrtIdle ==
    /\ seconds = 0
    /\ srt_time = None

\* detect_language has not been called
LangIdle ==
    /\ lang_text = <<>>
    /\ language = None

\* no function of api_manager is being called from outside generate_tts_audio
KeysIdle ==
    /\ index_float = FALSE
    /\ index_file = [readable |-> TRUE, float |-> FALSE]
    /\ key_start = 0
    /\ key_returns = <<>>
    /\ kpc = "off"

\* no workflow is running
WorkflowIdle ==
    /\ wf_entry = "none"
    /\ wf_mode = "auto"
    /\ steps = <<>>
    /\ sent = <<>>
    /\ wf_result = None
    /\ wpc = "idle"

\* no thread of the bot is rotating the key
RaceIdle ==
    /\ thread_pc = <<>>
    /\ thread_index = <<>>
    /\ thread_buffer = <<>>
    /\ race_start = 0

\* none of the other components is running
LateIdle ==
    /\ PipelineIdle
    /\ SrtIdle
    /\ LangIdle
    /\ KeysIdle
    /\ WorkflowIdle
    /\ RaceIdle

\* no composition is running
ComposeIdle ==
    /\ voiceover_duration = 0
    /\ footage_duration = 0
    /\ title_text = None
    /\ music_duration = None
    /\ background = NoClip
    /\ subtitle_clips = <<>>
    /\ title_clip = None
    /\ final_video = None
    /\ audio_clips = <<>>
    /\ cpc = "idle"
    /\ error = "none"
    /\ result = None

\* the segmenter is not running
SegIdle ==
    /\ data = <<>>
    /\ max_chars = 60
    /\ max_duration = 2
    /\ min_gap = 1
    /\ i = 1
    /\ subtitles = <<>>
    /\ current_line = <<>>
    /\ current_start = None
    /\ current_chars = 0
    /\ flushed = <<>>
    /\ pc = "idle"

\* every component but this one is idle
PipelineAlone ==
    /\ SegIdle
    /\ ComposeIdle
    /\ FrameIdle
    /\ BatchIdle
    /\ SrtIdle
    /\ LangIdle
    /\ KeysIdle
    /\ WorkflowIdle
    /\ RaceIdle

\* every component but this one is idle
SrtAlone ==
    /\ SegIdle
    /\ ComposeIdle
    /\ FrameIdle
    /\ TtsIdle
    /\ BatchIdle
    /\ PipelineIdle
    /\ LangIdle
    /\ KeysIdle
    /\ WorkflowIdle
    /\ RaceIdle

\* every component but this one is idle
LangAlone ==
    /\ SegIdle
    /\ ComposeIdle
    /\ FrameIdle
    /\ TtsIdle
    /\ BatchIdle
    /\ PipelineIdle
    /\ SrtIdle
    /\ KeysIdle
    /\ WorkflowIdle
    /\ RaceIdle

\* every component but this one is idle
KeysAlone ==
    /\ SegIdle
    /\ ComposeIdle
    /\ FrameIdle
    /\ BatchIdle
    /\ PipelineIdle
    /\ SrtIdle
    /\ LangIdle
    /\ WorkflowIdle
    /\ RaceIdle

\* every component but this one is idle
WorkflowAlone ==
    /\ SegIdle
    /\ ComposeIdle
    /\ FrameIdle
    /\ BatchIdle
    /\ PipelineIdle
    /\ SrtIdle
    /\ LangIdle
    /\ KeysIdle
    /\ RaceIdle

\* every component but this one is idle
RaceAlone ==
    /\ SegIdle
    /\ ComposeIdle
    /\ FrameIdle
    /\ BatchIdle
    /\ PipelineIdle
    /\ SrtIdle
    /\ LangIdle
    /\ KeysIdle
    /\ WorkflowIdle

SegInit ==
    /\ data \in WordStreams
    /\ max_chars \in MaxCharsChoices
    /\ max_duration \in MaxDurationChoices
    /\ min_gap \in MinGapChoices
    /\ i = 1
    /\ subtitles = <<>>
    /\ current_line = <<>>
    /\ current_start = None
    /\ current_chars = 0
    /\ flushed = <<>>
    /\ pc = "entry"
    /\ ComposeIdle
    /\ FrameIdle
    /\ TtsIdle
    /\ BatchIdle
    /\ LateIdle

\* if not data: return []
SplitEmpty ==
    /\ pc = "entry"
    /\ data = <<>>
    /\ pc' = "done"
    /\ UNCHANGED <<data, max_chars, max_duration, min_gap, i, subtitles,
                   current_line, current_start, current_chars, flushed>>
    /\ UNCHANGED notSeg

\* the initialisation of the locals, before the loop
SplitBegin ==
    /\ pc = "entry"
    /\ data # <<>>
    /\ pc' = "loop"
    /\ UNCHANGED <<data, max_chars, max_duration, min_gap, i, subtitles,
                   current_line, current_start, current_chars, flushed>>
    /\ UNCHANGED notSeg

\* one iteration of  for i, word_info in enumerate(data)
SplitWord ==
    /\ pc = "loop"
    /\ i <= Len(data)
    /\ LET word == data[i].word
           end == data[i].end
           line_start == LineStart(current_start, data[i].start)
           line == Append(current_line, word)
           chars == AddChars(current_chars, word)
           first == i - Len(current_line)
       IN  IF ShouldBreak(data, i, chars, line_start, max_chars,
                          max_duration, min_gap) /\ line # <<>>
           THEN /\ subtitles' = Append(subtitles,
                                       SubtitleLine(line, line_start, end))
                /\ flushed' = Append(flushed,
                       [first |-> first, last |-> i, chars |-> chars])
                /\ current_line' = <<>>
                /\ current_start' = ResetStart(line_start)
                /\ current_chars' = 0
           ELSE /\ current_line' = line
                /\ current_start' = Some(line_start)
                /\ current_chars' = chars
                /\ UNCHANGED <<subtitles, flushed>>
    /\ i' = i + 1
    /\ UNCHANGED <<data, max_chars, max_duration, min_gap, pc>>
    /\ UNCHANGED notSeg

\* return subtitles
SplitReturn ==
    /\ pc = "loop"
    /\ i > Len(data)
    /\ pc' = "done"
    /\ UNCHANGED <<data, max_chars, max_duration, min_gap, i, subtitles,
                   current_line, current_start, current_chars, flushed>>
    /\ UNCHANGED notSeg

SegNext == SplitEmpty \/ SplitBegin \/ SplitWord \/ SplitReturn

Init == SegInit

Next == SegNext

Spec == Init /\ [][Next]_vars

\* split_text_into_lines on streams built from the words  Hi  there  friend.
\* and  o.k  (a full stop that is not the last character), in tenths of a
\* second

ExampleWords ==
    << <<"H", "i">>, <<"t", "h", "e", "r", "e">>,
       <<"f", "r", "i", "e", "n", "d", ".">>, <<"o", ".", "k">> >>

\* the start and the end of the word in each position
ExampleTimes == << <<0, 3>>, <<3, 7>>, <<7, 13>> >>

\* the silence added in front of every word but the first
ExampleDelays == {0, 15}

ExampleStreams ==
    { [k \in 1..n |->
          [word |-> ExampleWords[p[k]],
           start |-> ExampleTimes[k][1] + (k - 1) * g,
           end |-> ExampleTimes[k][2] + (k - 1) * g]] :
      n \in 0..Len(ExampleTimes),
      p \in [1..Len(ExampleTimes) -> 1..Len(ExampleWords)],
      g \in ExampleDelays }

FlushInit ==
    /\ data \in ExampleStreams
    /\ max_chars \in {9, 60}
    /\ max_duration \in {7, 25}
    /\ min_gap \in {15, 30}
    /\ i = 1
    /\ subtitles = <<>>
    /\ current_line = <<>>
    /\ current_start = None
    /\ current_chars = 0
    /\ flushed = <<>>
    /\ pc = "entry"
    /\ ComposeIdle
    /\ FrameIdle
    /\ TtsIdle
    /\ BatchIdle
    /\ LateIdle

SpecFlush == FlushInit /\ [][SegNext]_vars

----------------------------------------------------------------------------
(* compose_video and get_random_subclip_and_slow *)

\* Bounds of the composer's inputs
MaxNarration == 16

MaxFootage == 2

MaxCaptions == 2

\* config.TITLE_DURATION, in seconds
TITLE_DURATION == 4

\* config.SLOW_MOTION_FACTOR = 0.7 = SlowNum / SlowDen
SlowNum == 7

SlowDen == 10

\* config.MUSIC_VOLUME and config.VOICEOVER_VOLUME, in percent
MUSIC_VOLUME == 15

VOICEOVER_VOLUME == 100

NarrationDurations == 0..MaxNarration

\* footage lengths, multiples of SlowNum seconds
FootageDurations == { SlowNum * k : k \in 0..MaxFootage }

TitleTexts == { None, <<"T">> }

\* no usable music file, or the length of the music file
MusicDurations == { None, Some(0), Some(5), Some(30) }

\* caption lists of a narration of length n, as split_text_into_lines
\* emits them for a well-formed transcription of that narration
CaptionTimes(n) == { 0, n \div 2, n }

CaptionLines(n) ==
    { l \in [text : {<<"a">>}, start : CaptionTimes(n), end : CaptionTimes(n)] :
        l.start <= l.end }

CaptionLists(n) ==
    { c \in UNION { [1..m -> CaptionLines(n)] : m \in 0..MaxCaptions } :
        \A j, k \in 1..Len(c) : j < k => c[j].end <= c[k].start }

\* truth value of a number: 0 counts as false, as None does
Truthy(x) == x # 0

\* truth value of a text or None: None and the empty text count as false
TextGiven(t) == t # None

Max(S) == CHOOSE x \in S : \A y \in S : y <= x

\* clip.fx(vfx.speedx, slow_factor): the duration divided by the factor
SlowedDuration(duration) == (duration * SlowDen) \div SlowNum

\* voiceover_duration + TITLE_DURATION if title_text else voiceover_duration
TargetDuration(vd, title) ==
    IF TextGiven(title) THEN vd + TITLE_DURATION ELSE vd

\* TITLE_DURATION if title_text else 0
TitleOffset(title) == IF TextGiven(title) THEN TITLE_DURATION ELSE 0

\* MaxStart without the subtraction of the target duration
MaxStartWholeClip(clip_duration, target_duration) == clip_duration

MaxStart(clip_duration, target_duration) == clip_duration - target_duration

\* the values random.uniform(0, max_start) can return (whole seconds)
StartTimes(max_start) == 0..max_start

\* Repeats without the additional repetition
RepeatsNoExtra(target_duration, clip_duration) ==
    target_duration \div clip_duration

\* int(target_duration / clip_duration) + 1
Repeats(target_duration, clip_duration) ==
    (target_duration \div clip_duration) + 1

\* clip.subclip(t_start, t_end).duration
SubclipDuration(t_start, t_end) == t_end - t_start

\* txt_clip.set_start(start).set_end(end)
CaptionClip(line) == [start |-> line.start, end |-> line.end]

\* ShiftClip that leaves the end where it was
ShiftClipStartOnly(clip, offset) ==
    [start |-> clip.start + offset, end |-> clip.end]

\* clip.set_start(clip.start + title_offset): the end moves with the start
ShiftClip(clip, offset) ==
    [start |-> clip.start + offset,
     end |-> clip.start + offset + (clip.end - clip.start)]

\* CompositeVideoClip(clips).duration: the latest end of its clips
CompositeDuration(ends) == Max(ends)

ComposeInit ==
    /\ voiceover_duration \in NarrationDurations
    /\ footage_duration \in FootageDurations
    /\ title_text \in TitleTexts
    /\ music_duration \in MusicDurations
    /\ subtitles \in CaptionLists(voiceover_duration)
    /\ background = NoClip
    /\ subtitle_clips = <<>>
    /\ title_clip = None
    /\ final_video = None
    /\ audio_clips = <<>>
    /\ cpc = "background"
    /\ error = "none"
    /\ result = None
    \* the segmenter is not running
    /\ data = <<>>
    /\ max_chars = 60
    /\ max_duration = 2
    /\ min_gap = 1
    /\ i = 1
    /\ current_line = <<>>
    /\ current_start = None
    /\ current_chars = 0
    /\ flushed = <<>>
    /\ pc = "idle"
    /\ FrameIdle
    /\ TtsIdle
    /\ BatchIdle
    /\ LateIdle

\* get_random_subclip_and_slow(background, target_duration): the clip it
\* returns, or the exception it raises
GetRandomSubclipAndSlow ==
    /\ cpc = "background"
    /\ LET target_duration == TargetDuration(voiceover_duration, title_text)
           clip_duration == SlowedDuration(footage_duration)
           clip == [NoClip EXCEPT !.slowed = clip_duration,
                                  !.target = target_duration]
       IN  IF ~ Truthy(target_duration)
           THEN /\ background' = [clip EXCEPT !.branch = "full",
                                              !.duration = clip_duration]
                /\ cpc' = "captions"
                /\ error' = error
           ELSE IF clip_duration > target_duration
           THEN /\ \E start_time \in
                        StartTimes(MaxStart(clip_duration, target_duration)) :
                      background' =
                          [clip EXCEPT !.branch = "subclip",
                                       !.start_time = start_time,
                                       !.duration = SubclipDuration(start_time,
                                           start_time + target_duration)]
                /\ cpc' = "captions"
                /\ error' = error
           ELSE IF clip_duration = 0
           THEN /\ background' = background
                /\ cpc' = "raised"
                /\ error' = "ZeroDivisionError"
           ELSE LET repeats == Repeats(target_duration, clip_duration)
                IN  /\ background' =
                           [clip EXCEPT !.branch = "loop",
                                        !.repeats = repeats,
                                        !.concat = repeats * clip_duration,
                                        !.duration = SubclipDuration(0,
                                            target_duration)]
                    /\ cpc' = "captions"
                    /\ error' = error
    /\ UNCHANGED <<inVars, result, subtitle_clips, title_clip, final_video, audio_clips>>
    /\ UNCHANGED notCompose

\* create_subtitle_clips and the shift of the captions by the title offset
CreateSubtitleClips ==
    /\ cpc = "captions"
    /\ LET title_offset == TitleOffset(title_text)
           clips == [k \in 1..Len(subtitles) |-> CaptionClip(subtitles[k])]
       IN  subtitle_clips' =
               IF title_offset > 0
               THEN [k \in 1..Len(clips) |-> ShiftClip(clips[k], title_offset)]
               ELSE clips
    /\ cpc' = "video"
    /\ UNCHANGED <<inVars, result, background, title_clip, final_video, audio_clips, error>>
    /\ UNCHANGED notCompose

\* the title overlay and CompositeVideoClip(video_clips)
CompositeVideo ==
    /\ cpc = "video"
    /\ LET title == IF TextGiven(title_text)
                    THEN Some([start |-> 0, end |-> TITLE_DURATION])
                    ELSE None
           ends == {background.duration}
                     \cup { title[k].end : k \in 1..Len(title) }
                     \cup { subtitle_clips[k].end : k \in 1..Len(subtitle_clips) }
       IN  /\ title_clip' = title
           /\ final_video' = Some([duration |-> CompositeDuration(ends)])
    /\ cpc' = "audio"
    /\ UNCHANGED <<inVars, result, background, subtitle_clips, audio_clips, error>>
    /\ UNCHANGED notCompose

\* the narration track, moved to the title offset, at full gain
VoiceoverTrack ==
    [track |-> "voiceover",
     start |-> TitleOffset(title_text),
     end |-> TitleOffset(title_text) + voiceover_duration,
     volume |-> VOICEOVER_VOLUME]

\* music.subclip(0, final_video.duration).volumex(MUSIC_VOLUME)
MusicTrack(video_duration) ==
    [track |-> "music",
     start |-> 0,
     end |-> SubclipDuration(0, video_duration),
     volume |-> MUSIC_VOLUME]

\* the audio tracks.  A music file shorter than the video is looped with
\* concatenate_videoclips, the concatenation of video clips (it reads the
\* size of every clip): with a music file of length 0 the division of line
\* 383 raises first, otherwise the call raises on the audio clips, which
\* have no size.
PrepareAudio ==
    /\ cpc = "audio"
    /\ LET video_duration == final_video[1].duration
       IN  IF music_duration = None
           THEN /\ audio_clips' = <<VoiceoverTrack>>
                /\ cpc' = "export"
                /\ error' = error
           ELSE IF music_duration[1] < video_duration
           THEN /\ audio_clips' = <<VoiceoverTrack>>
                /\ cpc' = "raised"
                /\ error' = IF music_duration[1] = 0
                            THEN "ZeroDivisionError"
                            ELSE "AttributeError"
           ELSE /\ audio_clips' = <<VoiceoverTrack, MusicTrack(video_duration)>>
                /\ cpc' = "export"
                /\ error' = error
    /\ UNCHANGED <<inVars, result, background, subtitle_clips, title_clip, final_video>>
    /\ UNCHANGED notCompose

\* write_videofile, the clean-up and the return
ExportVideo ==
    /\ cpc = "export"
    /\ cpc' = "done"
    /\ UNCHANGED <<inVars, result, background, subtitle_clips, title_clip, final_video,
                   audio_clips, error>>
    /\ UNCHANGED notCompose

\* generate_complete_video: compose_video has returned the path of the video
ReturnSuccess ==
    /\ cpc = "done"
    /\ result = None
    /\ result' = Some([success |-> TRUE,
                       message |-> "Video generated successfully"])
    /\ UNCHANGED <<inVars, background, subtitle_clips, title_clip, final_video,
                   audio_clips, cpc, error>>
    /\ UNCHANGED notCompose

\* generate_complete_video: except Exception as e, around compose_video
ReturnFailure ==
    /\ cpc = "raised"
    /\ result = None
    /\ result' = Some([success |-> FALSE, message |-> error])
    /\ UNCHANGED <<inVars, background, subtitle_clips, title_clip, final_video,
                   audio_clips, cpc, error>>
    /\ UNCHANGED notCompose

ComposeNext ==
    \/ GetRandomSubclipAndSlow
    \/ CreateSubtitleClips
    \/ CompositeVideo
    \/ PrepareAudio
    \/ ExportVideo
    \/ ReturnSuccess
    \/ ReturnFailure

SpecCompose == ComposeInit /\ [][ComposeNext]_vars

----------------------------------------------------------------------------
(* The frame size: calculate_target_dimensions, adapt_vertical_to_format *)
(* and ensure_even_dimensions                                            *)

\* the footage sides differ from a usual side by at most MaxTrim pixels
MaxTrim == 1

MaxSmall == 1

\* the sides of the footage, down to a single pixel
FootageSides ==
    { b - d : b \in {608, 1080, 1920}, d \in 0..MaxTrim }
        \cup {1072, 1900} \cup 1..MaxSmall

FootageSizes == FootageSides \X FootageSides

\* the aspect ratios and qualities a caller passes: the keys of the table
\* and one that the table does not have
AspectRatios == {"9:16", "4:5", "16:9", "1:1", "2:1"}

Qualities == {"High Quality", "Standard Quality", "Ultra Quality"}

ASPECT_RATIO_DIMENSIONS ==
    [a \in {"9:16", "4:5", "16:9", "1:1"} |->
        [q \in {"High Quality", "Standard Quality"} |->
            CASE a = "9:16" -> IF q = "High Quality" THEN <<1080, 1920>>
                                                     ELSE <<720, 1280>>
              [] a = "4:5"  -> IF q = "High Quality" THEN <<1080, 1350>>
                                                     ELSE <<720, 900>>
              [] a = "16:9" -> IF q = "High Quality" THEN <<1920, 1080>>
                                                     ELSE <<1280, 720>>
              [] a = "1:1"  -> IF q = "High Quality" THEN <<1080, 1080>>
                                                     ELSE <<720, 720>>]]

\* calculate_target_dimensions(aspect_ratio, quality)
calculate_target_dimensions(a, q) ==
    IF a \in DOMAIN ASPECT_RATIO_DIMENSIONS
           /\ q \in DOMAIN ASPECT_RATIO_DIMENSIONS[a]
    THEN ASPECT_RATIO_DIMENSIONS[a][q]
    ELSE <<1080, 1920>>

Abs(x) == IF x < 0 THEN -x ELSE x

\* abs(target_aspect - source_aspect) < 0.01, with target_aspect = tw / th
\* and source_aspect = sw / sh, multiplied out by 100 * th * sh
AspectsClose(tw, th, sw, sh) == 100 * Abs(tw * sh - sw * th) < th * sh

\* source_aspect > target_aspect
SourceWider(tw, th, sw, sh) == sw * th > tw * sh

\* new_width = int(source_height * target_aspect)
NewWidth(tw, th, sh) == (sh * tw) \div th

\* new_height = int(source_width / target_aspect)
NewHeight(tw, th, sw) == (sw * th) \div tw

\* x1 = int(x_center - new_width / 2) with x_center = source_width / 2
CropOffset(side, new_side) == (side - new_side) \div 2

\* the zoom applies to the two portrait formats
ZoomedRatios == {"9:16", "4:5"}

\* a side of clip.resize(1.05)
ZoomedSide(n) == (n * 105) \div 100

\* a side of clip.crop(x_center = clip.w / 2, width = target_width): the
\* frame is cut at int(x_center - width / 2) and int(x_center + width / 2)
CenterCropSide(z, t) == (z + t) \div 2 - (z - t) \div 2

\* adapt_vertical_to_format(clip, target_width, target_height, aspect_ratio):
\* what it did and the size of the clip it returns
adapt_vertical_to_format(size, target, a) ==
    LET sw == size[1]
        sh == size[2]
        tw == target[1]
        th == target[2]
    IN  IF AspectsClose(tw, th, sw, sh)
        THEN [did |-> [NotAdapted EXCEPT !.path = "resize"], size |-> target]
        ELSE LET cropped ==
                     IF SourceWider(tw, th, sw, sh)
                     THEN [NotAdapted EXCEPT
                               !.path = "crop_width",
                               !.crop_size = NewWidth(tw, th, sh),
                               !.crop_offset =
                                   CropOffset(sw, NewWidth(tw, th, sh))]
                     ELSE [NotAdapted EXCEPT
                               !.path = "crop_height",
                               !.crop_size = NewHeight(tw, th, sw),
                               !.crop_offset =
                                   CropOffset(sh, NewHeight(tw, th, sw))]
             IN  IF a \in ZoomedRatios
                 THEN [did |-> [cropped EXCEPT !.zoomed = TRUE],
                       size |-> <<CenterCropSide(ZoomedSide(tw), tw),
                                  CenterCropSide(ZoomedSide(th), th)>>]
                 ELSE [did |-> cropped, size |-> target]

\* a dimension made even upwards
EvenDimensionUp(n) == IF n % 2 # 0 THEN n + 1 ELSE n

\* if width % 2 != 0: width -= 1
EvenDimension(n) == IF n % 2 # 0 THEN n - 1 ELSE n

\* ensure_even_dimensions(clip): the size of the clip it returns
ensure_even_dimensions(size) == <<EvenDimension(size[1]), EvenDimension(size[2])>>

\* compose_video is called with an aspect ratio and a quality, on a footage
\* of some size
FrameInit ==
    /\ aspect_ratio \in AspectRatios
    /\ quality \in Qualities
    /\ source_size \in FootageSizes
    /\ target_size = <<0, 0>>
    /\ adapted = NotAdapted
    /\ clip_size = <<0, 0>>
    /\ frame_size = <<0, 0>>
    /\ even_clip = None
    /\ fpc = "target"
    /\ SegIdle
    /\ ComposeIdle
    /\ TtsIdle
    /\ BatchIdle
    /\ LateIdle

\* target_width, target_height = calculate_target_dimensions(...)
CalculateTargetDimensions ==
    /\ fpc = "target"
    /\ target_size' = calculate_target_dimensions(aspect_ratio, quality)
    /\ fpc' = "adapt"
    /\ UNCHANGED <<aspect_ratio, quality, source_size, adapted, clip_size,
                   frame_size, even_clip>>
    /\ UNCHANGED notFrame

\* clip.crop(x1=x1, width=new_width) with new_width = 0: the cropped frame
\* has no pixels
EmptyCrop(did) ==
    did.path \in {"crop_width", "crop_height"} /\ did.crop_size = 0

\* background = adapt_vertical_to_format(background, ...); the resize of a
\* frame without pixels raises
AdaptVerticalToFormat ==
    /\ fpc = "adapt"
    /\ LET r == adapt_vertical_to_format(source_size, target_size, aspect_ratio)
       IN  /\ adapted' = r.did
           /\ IF EmptyCrop(r.did)
              THEN /\ fpc' = "raised"
                   /\ UNCHANGED clip_size
              ELSE /\ fpc' = "even"
                   /\ clip_size' = r.size
    /\ UNCHANGED <<aspect_ratio, quality, source_size, target_size, frame_size,
                   even_clip>>
    /\ UNCHANGED notFrame

\* background = ensure_even_dimensions(background), after the subclip, which
\* keeps the size
EnsureEvenDimensions ==
    /\ fpc = "even"
    /\ clip_size' = ensure_even_dimensions(clip_size)
    /\ fpc' = "composite"
    /\ UNCHANGED <<aspect_ratio, quality, source_size, target_size, adapted,
                   frame_size, even_clip>>
    /\ UNCHANGED notFrame

\* CompositeVideoClip(video_clips) takes the size of its first clip, the
\* background
CompositeFrame ==
    /\ fpc = "composite"
    /\ frame_size' = clip_size
    /\ fpc' = "done"
    /\ UNCHANGED <<aspect_ratio, quality, source_size, target_size, adapted,
                   clip_size, even_clip>>
    /\ UNCHANGED notFrame

\* ensure_even_dimensions called on the footage itself
EnsureEvenOfFootage ==
    /\ fpc # "idle"
    /\ even_clip = None
    /\ even_clip' = Some(ensure_even_dimensions(source_size))
    /\ UNCHANGED <<aspect_ratio, quality, source_size, target_size, adapted,
                   clip_size, frame_size, fpc>>
    /\ UNCHANGED notFrame

FrameNext ==
    \/ CalculateTargetDimensions
    \/ AdaptVerticalToFormat
    \/ EnsureEvenDimensions
    \/ CompositeFrame
    \/ EnsureEvenOfFootage

SpecFrame == FrameInit /\ [][FrameNext]_vars

----------------------------------------------------------------------------
(* generate_tts_audio (src/voiceover_generator.py) and the key rotation *)
(* (src/api_manager.py)                                                 *)

\* len(api_keys)
NumKeys == 3

AVAILABLE_VOICES == {"Puck", "Charon", "Kore", "Fenrir", "Aoede"}

\* the voice names a caller passes: one of the table and one it does not have
VoiceNames == {"Puck", "Zephyr"}

\* the texts a caller passes: empty (None counts as empty), blanks only, and
\* a script
TextInputs == { <<>>, <<" ">>, <<"h", "i">> }

\* the messages str(e) of the exceptions the synthesis raises
ErrorMessages ==
    { <<>>,
      <<"Q", "u", "o", "t", "a", " ", "e", "x", "c", "e", "e", "d", "e", "d">>,
      <<"4", "2", "9">>,
      <<"U", "N", "A", "U", "T", "H", "O", "R", "I", "Z", "E", "D">>,
      <<"A", "P", "I", " ", "k", "e", "y", " ", "q", "u", "o", "t", "a">>,
      <<"t", "i", "m", "e", "o", "u", "t">> }

\* what client.models.generate_content does: it raises, or it returns a
\* response without candidates, without audio data, with data that is not
\* base64, or with audio
Outcomes ==
    { [kind |-> "raise", message |-> m] : m \in ErrorMessages }
        \cup { [kind |-> k, message |-> <<>>] :
                 k \in {"no_candidates", "no_audio", "bad_base64", "audio"} }

UpperCase ==
    <<"A", "B", "C", "D", "E", "F", "G", "H", "I", "J", "K", "L", "M", "N",
       "O", "P", "Q", "R", "S", "T", "U", "V", "W", "X", "Y", "Z">>

LowerCase ==
    <<"a", "b", "c", "d", "e", "f", "g", "h", "i", "j", "k", "l", "m", "n",
       "o", "p", "q", "r", "s", "t", "u", "v", "w", "x", "y", "z">>

\* str.lower(), character by character
LowerChar(c) ==
    IF \E k \in 1..Len(UpperCase) : UpperCase[k] = c
    THEN LowerCase[CHOOSE k \in 1..Len(UpperCase) : UpperCase[k] = c]
    ELSE c

Lower(s) == [k \in 1..Len(s) |-> LowerChar(s[k])]

\* indicator in error_lower
Contains(s, sub) ==
    \E k \in 0..(Len(s) - Len(sub)) : SubSeq(s, k + 1, k + Len(sub)) = sub

quota_indicators ==
    { <<"q", "u", "o", "t", "a">>,
      <<"4", "2", "9">>,
      <<"r", "e", "s", "o", "u", "r", "c", "e", "_", "e", "x", "h", "a", "u", "s", "t", "e", "d">>,
      <<"r", "a", "t", "e", "_", "l", "i", "m", "i", "t">>,
      <<"t", "o", "o", " ", "m", "a", "n", "y", " ", "r", "e", "q", "u", "e", "s", "t", "s">> }

auth_indicators ==
    { <<"a", "p", "i", " ", "k", "e", "y">>,
      <<"a", "u", "t", "h", "e", "n", "t", "i", "c", "a", "t", "i", "o", "n">>,
      <<"u", "n", "a", "u", "t", "h", "o", "r", "i", "z", "e", "d">>,
      <<"i", "n", "v", "a", "l", "i", "d", " ", "k", "e", "y">>,
      <<"p", "e", "r", "m", "i", "s", "s", "i", "o", "n", " ", "d", "e", "n", "i", "e", "d">> }

is_quota_error(message) ==
    /\ message # <<>>
    /\ \E indicator \in quota_indicators :
           Contains(Lower(message), indicator)

is_auth_error(message) ==
    /\ message # <<>>
    /\ \E indicator \in auth_indicators :
           Contains(Lower(message), indicator)

should_rotate_key(message) ==
    is_quota_error(message) \/ is_auth_error(message)

Whitespace == {" "}

\* text.strip(): the text without its leading and trailing whitespace
RECURSIVE Strip(_)
Strip(t) ==
    IF t = <<>> THEN t
    ELSE IF Head(t) \in Whitespace THEN Strip(Tail(t))
    ELSE IF t[Len(t)] \in Whitespace THEN Strip(SubSeq(t, 1, Len(t) - 1))
    ELSE t

\* TextIsEmpty without the strip
TextIsEmptyNoStrip(text_in) == text_in = <<>>

\* not text_input or not text_input.strip()
TextIsEmpty(text_in) == text_in = <<>> \/ Strip(text_in) = <<>>

Status(text, arg) == [text |-> text, arg |-> arg]

CancelledStatus == Status("Generation cancelled by user", <<>>)

InvalidVoiceStatus(v) == Status("Invalid voice: ", <<v>>)

EmptyTextStatus == Status("Text input is empty", <<>>)

\* the tuple (audio_path, status) that generate_tts_audio returns
TtsReturn(path, status) == Some([audio_path |-> path, status |-> status])

\* load_api_key(): the index after reading the file of the saved index
LoadedIndex(index, saved) ==
    IF saved # None /\ 0 <= saved[1] /\ saved[1] < NumKeys
    THEN saved[1]
    ELSE index

\* the contents of the file of the saved index: no file, an index, or an
\* index out of range
SavedIndexes == {None} \cup { Some(k) : k \in 0..NumKeys }

\* config and api_manager are imported: the flag is False or a caller has
\* set it already, the index is random.randint(0, len(api_keys) - 1)
TtsInit ==
    /\ config_cancelled \in BOOLEAN
    /\ GENERATION_CANCELLED = None
    /\ current_api_key_index \in 0..(NumKeys - 1)
    /\ saved_index \in SavedIndexes
    /\ text_input = <<>>
    /\ voice_name = "Puck"
    /\ use_rotation = TRUE
    /\ entry = [cancelled |-> FALSE, index |-> 0]
    /\ synthesis_calls = 0
    /\ files_written = 0
    /\ error_message = None
    /\ tts_result = None
    /\ signals = {}
    /\ tpc = "idle"
    /\ SegIdle
    /\ ComposeIdle
    /\ FrameIdle
    /\ BatchIdle
    /\ LateIdle

\* from config import GENERATION_CANCELLED, when voiceover_generator is
\* imported: the module gets its own name, bound to the value of that moment
ImportVoiceoverGenerator ==
    /\ tpc = "idle"
    /\ GENERATION_CANCELLED = None
    /\ GENERATION_CANCELLED' = Some(config_cancelled)
    /\ UNCHANGED <<config_cancelled, current_api_key_index, saved_index,
                   text_input, voice_name, use_rotation, entry,
                   synthesis_calls, files_written, error_message, tts_result,
                   signals, tpc>>
    /\ UNCHANGED notTts

\* a caller sets config.GENERATION_CANCELLED, at any moment
SetCancelled ==
    /\ tpc # "off"
    /\ config_cancelled = FALSE
    /\ config_cancelled' = TRUE
    /\ UNCHANGED <<GENERATION_CANCELLED, current_api_key_index, saved_index,
                   text_input, voice_name, use_rotation, entry,
                   synthesis_calls, files_written, error_message, tts_result,
                   signals, tpc>>
    /\ UNCHANGED notTts

\* generate_tts_audio(text_input, voice_name, use_rotation), up to the call
\* of the synthesis: the cancellation check, the two validations and the
\* choice of the key
GenerateTtsAudio ==
    /\ tpc \in {"idle", "returned"}
    /\ GENERATION_CANCELLED # None
    /\ \E t \in TextInputs, v \in VoiceNames, r \in BOOLEAN :
          /\ text_input' = t
          /\ voice_name' = v
          /\ use_rotation' = r
          /\ entry' = [cancelled |-> config_cancelled,
                       index |-> current_api_key_index]
          /\ synthesis_calls' = 0
          /\ files_written' = 0
          /\ error_message' = None
          /\ IF GENERATION_CANCELLED[1]
             THEN /\ tts_result' = TtsReturn(None, CancelledStatus)
                  /\ tpc' = "returned"
                  /\ UNCHANGED current_api_key_index
             ELSE IF v \notin AVAILABLE_VOICES
             THEN /\ tts_result' = TtsReturn(None, InvalidVoiceStatus(v))
                  /\ tpc' = "returned"
                  /\ UNCHANGED current_api_key_index
             ELSE IF TextIsEmpty(t)
             THEN /\ tts_result' = TtsReturn(None, EmptyTextStatus)
                  /\ tpc' = "returned"
                  /\ UNCHANGED current_api_key_index
             ELSE /\ tts_result' = None
                  /\ tpc' = "synthesis"
                  /\ current_api_key_index' =
                         IF r THEN current_api_key_index
                         ELSE LoadedIndex(current_api_key_index, saved_index)
    /\ UNCHANGED <<config_cancelled, GENERATION_CANCELLED, saved_index,
                   signals>>
    /\ UNCHANGED notTts

\* the class of an error and the status that reports it
Signal(message, status_text) ==
    [quota |-> is_quota_error(message), auth |-> is_auth_error(message),
     status |-> status_text]

\* generate_tts_audio from the return or the exception of generate_content
\* to its own return
SynthesisReturns ==
    /\ tpc = "synthesis"
    /\ synthesis_calls' = synthesis_calls + 1
    /\ \E o \in Outcomes :
          IF o.kind = "raise"
          THEN LET rotate == use_rotation /\ should_rotate_key(o.message)
                   next_index == (current_api_key_index + 1) % NumKeys
                   text == IF rotate THEN "API error (key rotated): "
                                     ELSE "Generation failed: "
               IN  /\ error_message' = Some(o.message)
                   /\ current_api_key_index' =
                          IF rotate THEN next_index ELSE current_api_key_index
                   /\ saved_index' =
                          IF rotate THEN Some(next_index) ELSE saved_index
                   /\ tts_result' = TtsReturn(None, Status(text, o.message))
                   /\ signals' = signals \cup {Signal(o.message, text)}
                   /\ files_written' = files_written
          ELSE /\ UNCHANGED <<error_message, current_api_key_index,
                              saved_index, signals>>
               /\ IF GENERATION_CANCELLED[1]
                  THEN /\ tts_result' = TtsReturn(None, CancelledStatus)
                       /\ files_written' = files_written
                  ELSE IF o.kind = "no_candidates"
                  THEN /\ tts_result' = TtsReturn(None,
                              Status("No audio data received from API", <<>>))
                       /\ files_written' = files_written
                  ELSE IF o.kind = "no_audio"
                  THEN /\ tts_result' = TtsReturn(None,
                              Status("Could not extract audio data from API response",
                                     <<>>))
                       /\ files_written' = files_written
                  ELSE IF o.kind = "bad_base64"
                  THEN /\ tts_result' = TtsReturn(None,
                              Status("Failed to decode audio data: ", <<>>))
                       /\ files_written' = files_written
                  ELSE /\ tts_result' = TtsReturn(Some("output_path"),
                              Status("Success", <<>>))
                       /\ files_written' = files_written + 1
    /\ tpc' = "returned"
    /\ UNCHANGED <<config_cancelled, GENERATION_CANCELLED, text_input,
                   voice_name, use_rotation, entry>>
    /\ UNCHANGED notTts

TtsNext ==
    \/ ImportVoiceoverGenerator
    \/ SetCancelled
    \/ GenerateTtsAudio
    \/ SynthesisReturns

SpecTts == TtsInit /\ [][TtsNext]_vars

\* ---------------------------------------------------------------------
\* api_manager.py: the functions of the key rotation, called in any order
\* ---------------------------------------------------------------------

\* the index file as load_api_key finds it: it can be parsed or not, and
\* the index it holds is an int or a float
IndexFiles == [readable : BOOLEAN, float : BOOLEAN]

\* api_keys[current_api_key_index]: the position of the key; a float index
\* raises TypeError (-1)
KeyAt(index, float) == IF float THEN -1 ELSE index

\* (current_api_key_index + 1) % len(api_keys)
NextIndex(index) == (index + 1) % NumKeys

\* the saved index passes  0 <= saved_index < len(api_keys)
SavedIndexUsable ==
    /\ saved_index # None
    /\ index_file.readable
    /\ \A k \in 1..Len(saved_index) : 0 <= saved_index[k] /\ saved_index[k] < NumKeys

\* api_manager is imported with some index file in place
KeysInit ==
    /\ current_api_key_index \in 0..(NumKeys - 1)
    /\ index_float = FALSE
    /\ saved_index \in SavedIndexes
    /\ index_file \in IndexFiles
    /\ key_start = current_api_key_index
    /\ key_returns = <<>>
    /\ kpc = "ready"
    /\ config_cancelled = FALSE
    /\ GENERATION_CANCELLED = None
    /\ text_input = <<>>
    /\ voice_name = "Puck"
    /\ use_rotation = TRUE
    /\ entry = [cancelled |-> FALSE, index |-> 0]
    /\ synthesis_calls = 0
    /\ files_written = 0
    /\ error_message = None
    /\ tts_result = None
    /\ signals = {}
    /\ tpc = "off"
    /\ KeysAlone

\* what the calls of api_manager leave alone
KeysFrame ==
    /\ UNCHANGED <<config_cancelled, GENERATION_CANCELLED, text_input,
                   voice_name, use_rotation, entry, synthesis_calls,
                   files_written, error_message, tts_result, signals, tpc>>
    /\ UNCHANGED notKeys

\* the index file is replaced from outside the program
ReplaceIndexFile ==
    /\ kpc = "ready"
    /\ saved_index' \in SavedIndexes
    /\ index_file' \in IndexFiles
    /\ UNCHANGED <<current_api_key_index, index_float, key_start, key_returns,
                   kpc>>
    /\ KeysFrame

\* load_api_key()
LoadApiKey ==
    /\ kpc = "ready"
    /\ IF SavedIndexUsable
       THEN /\ current_api_key_index' = saved_index[1]
            /\ index_float' = index_file.float
       ELSE UNCHANGED <<current_api_key_index, index_float>>
    /\ key_start' = current_api_key_index'
    /\ key_returns' = <<>>
    /\ UNCHANGED <<saved_index, index_file, kpc>>
    /\ KeysFrame

\* get_next_api_key(): save_api_key writes the file or fails to open it
GetNextApiKey ==
    /\ kpc = "ready"
    /\ Len(key_returns) < NumKeys
    /\ current_api_key_index' = NextIndex(current_api_key_index)
    /\ \/ /\ saved_index' = Some(current_api_key_index')
          /\ index_file' = [readable |-> TRUE, float |-> index_float]
       \/ UNCHANGED <<saved_index, index_file>>
    /\ key_returns' =
           Append(key_returns, KeyAt(current_api_key_index', index_float))
    /\ UNCHANGED <<index_float, key_start, kpc>>
    /\ KeysFrame

\* get_current_api_key()
GetCurrentApiKey ==
    /\ kpc = "ready"
    /\ key_returns # <<>>
    /\ key_start' = current_api_key_index
    /\ key_returns' = <<>>
    /\ UNCHANGED <<current_api_key_index, index_float, saved_index,
                   index_file, kpc>>
    /\ KeysFrame

\* get_api_rotation_status()
GetApiRotationStatus ==
    /\ kpc = "ready"
    /\ key_returns # <<>>
    /\ key_start' = current_api_key_index
    /\ key_returns' = <<>>
    /\ UNCHANGED <<current_api_key_index, index_float, saved_index,
                   index_file, kpc>>
    /\ KeysFrame

\* reset_api_key_rotation(): random.randint(0, len(api_keys) - 1), then
\* save_api_key
ResetApiKeyRotation ==
    /\ kpc = "ready"
    /\ current_api_key_index' \in 0..(NumKeys - 1)
    /\ index_float' = FALSE
    /\ \/ /\ saved_index' = Some(current_api_key_index')
          /\ index_file' = [readable |-> TRUE, float |-> FALSE]
       \/ UNCHANGED <<saved_index, index_file>>
    /\ key_start' = current_api_key_index'
    /\ key_returns' = <<>>
    /\ UNCHANGED kpc
    /\ KeysFrame

KeysNext ==
    \/ ReplaceIndexFile
    \/ LoadApiKey
    \/ GetNextApiKey
    \/ GetCurrentApiKey
    \/ GetApiRotationStatus
    \/ ResetApiKeyRotation

SpecKeys == KeysInit /\ [][KeysNext]_vars

----------------------------------------------------------------------------
(* get_next_api_key called by two threads of the bot (src/telegram_bot.py  *)
(* starts a thread for every message; each generate_tts_audio fails with   *)
(* an error that rotates the key)                                           *)

\* the two threads started by the loop of the bot
Threads == {1, 2}

RaceInit ==
    /\ current_api_key_index \in 0..(NumKeys - 1)
    /\ saved_index \in SavedIndexes
    /\ thread_pc = [t \in Threads |-> "read"]
    /\ thread_index = [t \in Threads |-> 0]
    /\ thread_buffer = [t \in Threads |-> 0]
    /\ race_start = current_api_key_index
    /\ config_cancelled = FALSE
    /\ GENERATION_CANCELLED = None
    /\ text_input = <<>>
    /\ voice_name = "Puck"
    /\ use_rotation = TRUE
    /\ entry = [cancelled |-> FALSE, index |-> 0]
    /\ synthesis_calls = 0
    /\ files_written = 0
    /\ error_message = None
    /\ tts_result = None
    /\ signals = {}
    /\ tpc = "off"
    /\ RaceAlone

\* what a step of a thread leaves alone
RaceFrame ==
    /\ UNCHANGED <<config_cancelled, GENERATION_CANCELLED, text_input,
                   voice_name, use_rotation, entry, synthesis_calls,
                   files_written, error_message, tts_result, signals, tpc,
                   race_start>>
    /\ UNCHANGED notRace

\* the right-hand side of line 59 loads the global current_api_key_index
ThreadRead ==
    \E t \in Threads :
        /\ thread_pc[t] = "read"
        /\ thread_index' = [thread_index EXCEPT ![t] = current_api_key_index]
        /\ thread_pc' = [thread_pc EXCEPT ![t] = "write"]
        /\ UNCHANGED <<current_api_key_index, saved_index, thread_buffer>>
        /\ RaceFrame

\* line 59 stores (index + 1) % len(api_keys) in the global
ThreadWrite ==
    \E t \in Threads :
        /\ thread_pc[t] = "write"
        /\ current_api_key_index' = NextIndex(thread_index[t])
        /\ thread_pc' = [thread_pc EXCEPT ![t] = "dump"]
        /\ UNCHANGED <<saved_index, thread_index, thread_buffer>>
        /\ RaceFrame

\* save_api_key: json.dump({'index': current_api_key_index}, f) puts the
\* index of this moment in the buffer of the file object
ThreadDump ==
    \E t \in Threads :
        /\ thread_pc[t] = "dump"
        /\ thread_buffer' = [thread_buffer EXCEPT ![t] = current_api_key_index]
        /\ thread_pc' = [thread_pc EXCEPT ![t] = "close"]
        /\ UNCHANGED <<current_api_key_index, saved_index, thread_index>>
        /\ RaceFrame

\* the end of the with block writes the buffer to API_KEY_FILE
ThreadClose ==
    \E t \in Threads :
        /\ thread_pc[t] = "close"
        /\ saved_index' = Some(thread_buffer[t])
        /\ thread_pc' = [thread_pc EXCEPT ![t] = "done"]
        /\ UNCHANGED <<current_api_key_index, thread_index, thread_buffer>>
        /\ RaceFrame

RaceNext ==
    \/ ThreadRead
    \/ ThreadWrite
    \/ ThreadDump
    \/ ThreadClose

SpecRace == RaceInit /\ [][RaceNext]_vars

----------------------------------------------------------------------------
(* The batch operations: generate_batch_videos (src/generate_video.py),   *)
(* handle_voiceover (src/telegram_bot.py), execute_batch_voiceover_workflow *)
(* and execute_batch_video_workflow (src/workflow_manager.py)              *)

\* the longest batch
MaxBatch == 3

BatchOperations ==
    {"generate_batch_videos", "handle_voiceover",
     "execute_batch_voiceover_workflow", "execute_batch_video_workflow"}

\* the operations that take a WorkflowMode
WorkflowOperations ==
    {"execute_batch_voiceover_workflow", "execute_batch_video_workflow"}

WorkflowModes == {"standalone", "pipeline", "auto"}

\* what happens to a script: every step succeeds, or the first step that
\* fails is the synthesis, the transcription or the composition
Fates == {"ok", "tts_fails", "transcription_fails", "compose_fails"}

ScriptLists == UNION { [1..n -> Fates] : n \in 0..MaxBatch }

\* WorkflowManager.should_continue_to_next_step(WorkflowStep.VOICEOVER)
ContinuesToSubtitle(m) == m # "standalone"

\* generate_complete_video(script): it returns success = False when the
\* synthesis fails, and its except turns every exception of the later steps
\* into success = False
generate_complete_video(fate) ==
    [raised |-> FALSE, success |-> fate = "ok"]

\* execute_subtitle_workflow(audio_path, chat_id, mode):
\* process_voiceover_to_subtitles is called outside any try
execute_subtitle_workflow(fate) ==
    IF fate = "transcription_fails"
    THEN [raised |-> TRUE, success |-> FALSE]
    ELSE [raised |-> FALSE, success |-> TRUE]

\* execute_voiceover_workflow(text, chat_id, voice, mode)
execute_voiceover_workflow(fate, m) ==
    IF fate = "tts_fails"
    THEN [raised |-> FALSE, success |-> FALSE]
    ELSE IF ContinuesToSubtitle(m)
    THEN execute_subtitle_workflow(fate)
    ELSE [raised |-> FALSE, success |-> TRUE]

\* execute_video_workflow(text, chat_id, voice, aspect, quality, mode)
execute_video_workflow(fate) == generate_complete_video(fate)

\* the body of the loop of handle_voiceover: generate_tts_audio and the
\* sending of the audio, which catches its exceptions
VoiceoverItem(fate) ==
    [raised |-> FALSE, success |-> fate # "tts_fails"]

\* what the body of the loop of a batch operation does with one script
ProcessScript(op, fate, m) ==
    CASE op = "generate_batch_videos" -> generate_complete_video(fate)
      [] op = "handle_voiceover" -> VoiceoverItem(fate)
      [] op = "execute_batch_voiceover_workflow" ->
             execute_voiceover_workflow(fate, m)
      [] op = "execute_batch_video_workflow" -> execute_video_workflow(fate)

\* sum(1 for r in results if r['success'])
Successful(rs) == Cardinality({ k \in 1..Len(rs) : rs[k].success })

\* a batch operation is called on a list of scripts
BatchInit ==
    /\ batch_op \in BatchOperations
    /\ mode \in WorkflowModes
    /\ batch_op \notin WorkflowOperations => mode = "auto"
    /\ scripts \in ScriptLists
    /\ results = <<>>
    /\ successful = None
    /\ bpc = "loop"
    /\ kwargs \in {None, Some(0)}
    /\ batch_op # "generate_batch_videos" => kwargs = None
    /\ SegIdle
    /\ ComposeIdle
    /\ FrameIdle
    /\ TtsIdle
    /\ LateIdle

\* if 'output_filename' not in kwargs:
\*     kwargs['output_filename'] = f"video_{i:03d}_{timestamp}.mp4"
OutputFilename(op, kw, k) ==
    IF op = "generate_batch_videos" /\ kw = None THEN Some(k) ELSE kw

\* one turn of the loop: the script is processed and its result appended,
\* or the exception of the script leaves the operation
BatchItem ==
    /\ bpc = "loop"
    /\ Len(results) < Len(scripts)
    /\ LET k == Len(results) + 1
           r == ProcessScript(batch_op, scripts[k], mode)
       IN  /\ kwargs' = OutputFilename(batch_op, kwargs, k)
           /\ IF r.raised
              THEN /\ bpc' = "raised"
                   /\ results' = results
              ELSE /\ bpc' = bpc
                   /\ results' = Append(results, [script |-> k,
                                                  success |-> r.success,
                                                  output |-> kwargs'])
    /\ UNCHANGED <<batch_op, mode, scripts, successful>>
    /\ UNCHANGED notBatch

\* the summary after the loop, and the return
BatchSummary ==
    /\ bpc = "loop"
    /\ Len(results) = Len(scripts)
    /\ successful' = Some(Successful(results))
    /\ bpc' = "done"
    /\ UNCHANGED <<batch_op, mode, scripts, results, kwargs>>
    /\ UNCHANGED notBatch

BatchNext ==
    \/ BatchItem
    \/ BatchSummary

SpecBatch == BatchInit /\ [][BatchNext]_vars

----------------------------------------------------------------------------
(* generate_complete_video (src/generate_video.py), stage by stage *)

\* FailureResult that reports success
FailureResultSuccess(message) ==
    Some([success |-> TRUE, video_path |-> None, message |-> message])

\* the dictionary of a failure: success False, no video path, a message
FailureResult(message) ==
    Some([success |-> FALSE, video_path |-> None, message |-> message])

\* the dictionary of lines 205-213
SuccessResult ==
    Some([success |-> TRUE, video_path |-> Some("final_video"),
          message |-> "Video generated successfully"])

\* a stage that has run, with what came of it
Stage(name, outcome) == [stage |-> name, outcome |-> outcome]

\* what a stage after the voiceover does: it returns, or it raises
StageOutcomes == {"ok", "raises"}

\* what the selection of a file does: a file, no file, or an exception
SelectionOutcomes == {"found", "none", "raises"}

\* generate_complete_video is called; voiceover_generator was imported with
\* the module
PipelineInit ==
    /\ config_cancelled \in BOOLEAN
    /\ GENERATION_CANCELLED = Some(config_cancelled)
    /\ current_api_key_index \in 0..(NumKeys - 1)
    /\ saved_index \in SavedIndexes
    /\ text_input = <<>>
    /\ voice_name = "Puck"
    /\ use_rotation = TRUE
    /\ entry = [cancelled |-> FALSE, index |-> 0]
    /\ synthesis_calls = 0
    /\ files_written = 0
    /\ error_message = None
    /\ tts_result = None
    /\ signals = {}
    /\ tpc = "idle"
    /\ gpc = "voiceover"
    /\ stages = <<>>
    /\ gresult = None
    /\ PipelineAlone

\* step 1: generate_tts_audio(script_text, voice_name, use_rotation=True)
PipelineGenerateTts ==
    /\ gpc = "voiceover"
    /\ tpc = "idle"
    /\ GenerateTtsAudio
    /\ use_rotation' = TRUE

\* the synthesis call of step 1 returns or raises inside generate_tts_audio
PipelineSynthesisReturns ==
    /\ gpc = "voiceover"
    /\ SynthesisReturns

\* lines 86-94: without an audio path the function returns a failure
PipelineVoiceover ==
    /\ gpc = "voiceover"
    /\ tpc = "returned"
    /\ IF tts_result[1].audio_path = None
       THEN /\ stages' = Append(stages, Stage("voiceover", "failed"))
            /\ gresult' = FailureResult("Voiceover generation failed")
            /\ gpc' = "returned"
       ELSE /\ stages' = Append(stages, Stage("voiceover", "ok"))
            /\ gresult' = gresult
            /\ gpc' = "subtitles"
    /\ UNCHANGED notPipeline
    /\ UNCHANGED ttsVars

\* step 2: the transcription, split_text_into_lines and the two subtitle
\* files; an exception goes to the except of line 215
PipelineSubtitles ==
    /\ gpc = "subtitles"
    /\ \E o \in StageOutcomes :
          /\ stages' = Append(stages, Stage("subtitles", o))
          /\ IF o = "raises"
             THEN /\ gresult' = FailureResult("Video generation failed")
                  /\ gpc' = "returned"
             ELSE /\ gresult' = gresult
                  /\ gpc' = "video_file"
    /\ UNCHANGED notPipeline
    /\ UNCHANGED ttsVars

\* step 3: the background video; without one the function returns a failure
PipelineSelectVideo ==
    /\ gpc = "video_file"
    /\ \E o \in SelectionOutcomes :
          /\ stages' = Append(stages, Stage("video_file", o))
          /\ IF o = "raises"
             THEN /\ gresult' = FailureResult("Video generation failed")
                  /\ gpc' = "returned"
             ELSE IF o = "none"
             THEN /\ gresult' = FailureResult("No background video available")
                  /\ gpc' = "returned"
             ELSE /\ gresult' = gresult
                  /\ gpc' = "music_file"
    /\ UNCHANGED notPipeline
    /\ UNCHANGED ttsVars

\* step 4: the background music; without one the video has the voiceover
\* only
PipelineSelectMusic ==
    /\ gpc = "music_file"
    /\ \E o \in SelectionOutcomes :
          /\ stages' = Append(stages, Stage("music_file", o))
          /\ IF o = "raises"
             THEN /\ gresult' = FailureResult("Video generation failed")
                  /\ gpc' = "returned"
             ELSE /\ gresult' = gresult
                  /\ gpc' = "compose"
    /\ UNCHANGED notPipeline
    /\ UNCHANGED ttsVars

\* step 5: compose_video returns the path of the video, or raises
PipelineCompose ==
    /\ gpc = "compose"
    /\ \E o \in StageOutcomes :
          /\ stages' = Append(stages, Stage("compose", o))
          /\ gresult' = IF o = "raises"
                        THEN FailureResult("Video generation failed")
                        ELSE SuccessResult
          /\ gpc' = "returned"
    /\ UNCHANGED notPipeline
    /\ UNCHANGED ttsVars

PipelineNext ==
    \/ PipelineGenerateTts
    \/ PipelineSynthesisReturns
    \/ PipelineVoiceover
    \/ PipelineSubtitles
    \/ PipelineSelectVideo
    \/ PipelineSelectMusic
    \/ PipelineCompose

SpecPipeline == PipelineInit /\ [][PipelineNext]_vars

----------------------------------------------------------------------------
(* execute_voiceover_workflow, execute_subtitle_workflow and               *)
(* execute_video_workflow (src/workflow_manager.py)                         *)

\* the workflow functions a caller starts, named by their WorkflowStep
WorkflowSteps == {"voiceover", "subtitle", "video"}

\* WorkflowManager.should_send_to_telegram(step)
should_send_to_telegram(m, step) ==
    IF m = "standalone" THEN TRUE
    ELSE IF m = "pipeline" THEN step = "video"
    ELSE TRUE

\* WorkflowManager.should_continue_to_next_step(current_step): the pair
\* (should_continue, next_step), None being "none"
should_continue_to_next_step(m, current_step) ==
    IF m = "standalone" THEN <<FALSE, "none">>
    ELSE IF current_step = "voiceover" THEN <<TRUE, "subtitle">>
    ELSE IF current_step = "subtitle" THEN <<TRUE, "video">>
    ELSE <<FALSE, "none">>

\* what is sent after a step: the result of the step, if the mode says so
SentAfter(m, step) ==
    IF should_send_to_telegram(m, step) THEN Append(sent, step) ELSE sent

\* a workflow function is called
WorkflowInit ==
    /\ wf_entry \in WorkflowSteps
    /\ wf_mode \in WorkflowModes
    /\ steps = <<>>
    /\ sent = <<>>
    /\ wf_result = None
    /\ wpc = wf_entry
    /\ config_cancelled \in BOOLEAN
    /\ GENERATION_CANCELLED = Some(config_cancelled)
    /\ current_api_key_index \in 0..(NumKeys - 1)
    /\ saved_index \in SavedIndexes
    /\ text_input = <<>>
    /\ voice_name = "Puck"
    /\ use_rotation = TRUE
    /\ entry = [cancelled |-> FALSE, index |-> 0]
    /\ synthesis_calls = 0
    /\ files_written = 0
    /\ error_message = None
    /\ tts_result = None
    /\ signals = {}
    /\ tpc = "idle"
    /\ WorkflowAlone

\* execute_voiceover_workflow: generate_tts_audio(text, voice_name=voice,
\* use_rotation=True)
WorkflowGenerateTts ==
    /\ wpc = "voiceover"
    /\ tpc = "idle"
    /\ GenerateTtsAudio
    /\ use_rotation' = TRUE

\* the synthesis call returns or raises inside generate_tts_audio
WorkflowSynthesisReturns ==
    /\ wpc = "voiceover"
    /\ SynthesisReturns

\* execute_voiceover_workflow after generate_tts_audio
WorkflowVoiceover ==
    /\ wpc = "voiceover"
    /\ tpc = "returned"
    /\ IF tts_result[1].audio_path = None
       THEN /\ wf_result' = Some(FALSE)
            /\ wpc' = "returned"
            /\ UNCHANGED <<steps, sent>>
       ELSE /\ steps' = Append(steps, "voiceover")
            /\ sent' = SentAfter(wf_mode, "voiceover")
            /\ IF should_continue_to_next_step(wf_mode, "voiceover")
                      = <<TRUE, "subtitle">>
               THEN /\ wpc' = "subtitle"
                    /\ UNCHANGED wf_result
               ELSE /\ wpc' = "returned"
                    /\ wf_result' = Some(TRUE)
    /\ UNCHANGED <<wf_entry, wf_mode>>
    /\ UNCHANGED notWorkflow
    /\ UNCHANGED ttsVars

\* execute_subtitle_workflow: the transcription raises, or the subtitles
\* are written; the continuation to the video step is  pass
WorkflowSubtitle ==
    /\ wpc = "subtitle"
    /\ \E o \in StageOutcomes :
          IF o = "raises"
          THEN /\ wpc' = "raised"
               /\ UNCHANGED <<steps, sent, wf_result>>
          ELSE /\ steps' = Append(steps, "subtitle")
               /\ sent' = SentAfter(wf_mode, "subtitle")
               /\ wf_result' = Some(TRUE)
               /\ wpc' = "returned"
    /\ UNCHANGED <<wf_entry, wf_mode>>
    /\ UNCHANGED notWorkflow
    /\ UNCHANGED ttsVars

\* execute_video_workflow: generate_complete_video fails, or the video is
\* saved and sent
WorkflowVideo ==
    /\ wpc = "video"
    /\ \E success \in BOOLEAN :
          /\ wf_result' = Some(success)
          /\ IF success
             THEN /\ steps' = Append(steps, "video")
                  /\ sent' = Append(sent, "video")
             ELSE UNCHANGED <<steps, sent>>
    /\ wpc' = "returned"
    /\ UNCHANGED <<wf_entry, wf_mode>>
    /\ UNCHANGED notWorkflow
    /\ UNCHANGED ttsVars

WorkflowNext ==
    \/ WorkflowGenerateTts
    \/ WorkflowSynthesisReturns
    \/ WorkflowVoiceover
    \/ WorkflowSubtitle
    \/ WorkflowVideo

\* a workflow function runs until it returns or raises
SpecWorkflow ==
    WorkflowInit /\ [][WorkflowNext]_vars /\ WF_vars(WorkflowNext)

----------------------------------------------------------------------------
(* generate_srt_file.format_time (src/subtitle_processor.py)                *)
(*                                                                          *)
(* The argument is the double nearest to t / 1000 for a number t of        *)
(* milliseconds.  //, % and int() are exact on doubles, and the nearest     *)
(* double has the same integer part as t / 1000, so hours, minutes and      *)
(* seconds are those of t.  (seconds % 1) * 1000 is the one rounded         *)
(* operation: with x = m / 2^k the double of t / 1000 (2^52 <= m < 2^53),   *)
(* the product is the double nearest to (t mod 1000) + d / 2^k, where       *)
(* d = 1000 * m - t * 2^k, and int() takes its integer part.                *)

\* the largest time, in milliseconds, of the exhaustive part of the domain
MaxMillis == 1100

\* the times formatted: every t up to MaxMillis, and 12.345 s and 3661.0 s
SrtTimes == 0..MaxMillis \cup {12345, 3661000}

RECURSIVE Pow2(_)
Pow2(n) == IF n = 0 THEN 1 ELSE 2 * Pow2(n - 1)

\* 2^n mod 2000
RECURSIVE Pow2Mod(_)
Pow2Mod(n) == IF n = 0 THEN 1 ELSE (2 * Pow2Mod(n - 1)) % 2000

\* floor(log2(n)) for n >= 1
RECURSIVE Log2(_)
Log2(n) == IF n < 2 THEN 0 ELSE 1 + Log2(n \div 2)

\* the exponent a of the double of t / 1000: 2^a <= t / 1000 < 2^(a + 1)
RECURSIVE ExponentUp(_, _)
ExponentUp(t, a) ==
    IF t >= 1000 * Pow2(a + 1) THEN ExponentUp(t, a + 1) ELSE a

RECURSIVE ExponentDown(_, _)
ExponentDown(t, b) ==
    IF t * Pow2(b) >= 1000 THEN -b ELSE ExponentDown(t, b + 1)

Exponent(t) == IF t >= 1000 THEN ExponentUp(t, 0) ELSE ExponentDown(t, 1)

\* d = 1000 * m - t * 2^k for the mantissa m nearest to t * 2^k / 1000
\* (ties to the even mantissa), from the remainders modulo 1000 and 2000
MantissaError(t, k) ==
    LET n2000 == ((t % 2000) * Pow2Mod(k)) % 2000
        rem == n2000 % 1000
        q_odd == (n2000 - rem) \div 1000 = 1
    IN  IF rem < 500 THEN -rem
        ELSE IF rem > 500 THEN 1000 - rem
        ELSE IF q_odd THEN 1000 - rem ELSE -rem

\* int((seconds % 1) * 1000)
Millis(t) ==
    LET mm == t % 1000
    IN  IF mm = 0 THEN 0
        ELSE LET a == Exponent(t)
                 k == 52 - a
                 d == MantissaError(t, k)
                 j == Log2(mm)
                 \* half the distance from mm to the double below it is
                 \* 2^(half - k)
                 half == IF mm = Pow2(j) THEN j - a - 2 ELSE j - a - 1
             IN  IF d >= 0 THEN mm
                 ELSE IF half < 0 \/ -d > Pow2(half) THEN mm - 1
                 ELSE mm

DecimalDigits == <<"0", "1", "2", "3", "4", "5", "6", "7", "8", "9">>

\* str(n) for n >= 0
RECURSIVE Decimal(_)
Decimal(n) ==
    IF n < 10 THEN <<DecimalDigits[n + 1]>>
    ELSE Decimal(n \div 10) \o <<DecimalDigits[(n % 10) + 1]>>

\* f"{n:0wd}": at least w digits, zeros in front
RECURSIVE ZeroPad(_, _)
ZeroPad(digits, w) ==
    IF Len(digits) >= w THEN digits ELSE ZeroPad(<<"0">> \o digits, w)

\* format_time(seconds)
format_time(t) ==
    LET hours == t \div 3600000
        minutes == (t % 3600000) \div 60000
        secs == (t % 60000) \div 1000
        millis == Millis(t)
    IN  ZeroPad(Decimal(hours), 2) \o <<":">> \o ZeroPad(Decimal(minutes), 2)
            \o <<":">> \o ZeroPad(Decimal(secs), 2) \o <<",">>
            \o ZeroPad(Decimal(millis), 3)

SrtInit ==
    /\ seconds \in SrtTimes
    /\ srt_time = None
    /\ SrtAlone

\* format_time(subtitle['start'])
FormatTime ==
    /\ srt_time = None
    /\ srt_time' = Some(format_time(seconds))
    /\ UNCHANGED seconds
    /\ UNCHANGED notSrt

SrtNext == FormatTime

SpecSrt == SrtInit /\ [][SrtNext]_vars

\* ---------------------------------------------------------------------
\* detect_language (subtitle_processor.py): the script family of a text
\* ---------------------------------------------------------------------

MaxText == 3

\* code points at and around the ends of the ranges of the three patterns
CodePoints ==
    {65, 1535, 1536, 1791, 1792, 2303, 2304, 2431, 2432, 12351, 12352,
     12543, 12544, 19967, 19968, 40959, 40960, 44031, 44032, 55215, 55216}

Texts == UNION {[1..n -> CodePoints] : n \in 0..MaxText}

\* [\u4e00-\u9fff\u3040-\u309f\u30a0-\u30ff\uac00-\ud7af]
IsCjk(c) ==
    \/ 19968 <= c /\ c <= 40959
    \/ 12352 <= c /\ c <= 12447
    \/ 12448 <= c /\ c <= 12543
    \/ 44032 <= c /\ c <= 55215

\* [\u0900-\u097f]
IsDevanagari(c) == 2304 <= c /\ c <= 2431

\* [\u0600-\u06ff]
IsArabic(c) == 1536 <= c /\ c <= 1791

\* re.search(pattern, text): some character of the text is in the class
SearchCjk(text) == \E k \in 1..Len(text) : IsCjk(text[k])

SearchDevanagari(text) == \E k \in 1..Len(text) : IsDevanagari(text[k])

SearchArabic(text) == \E k \in 1..Len(text) : IsArabic(text[k])

detect_languageArabicFirst(text) ==
    IF Len(text) = 0 THEN "latin"
    ELSE IF SearchCjk(text) THEN "cjk"
    ELSE IF SearchArabic(text) THEN "arabic"
    ELSE IF SearchDevanagari(text) THEN "devanagari"
    ELSE "latin"

detect_language(text) ==
    IF Len(text) = 0 THEN "latin"
    ELSE IF SearchCjk(text) THEN "cjk"
    ELSE IF SearchDevanagari(text) THEN "devanagari"
    ELSE IF SearchArabic(text) THEN "arabic"
    ELSE "latin"

LangInit ==
    /\ lang_text \in Texts
    /\ language = None
    /\ LangAlone

DetectLanguage ==
    /\ language = None
    /\ language' = Some(detect_language(lang_text))
    /\ UNCHANGED lang_text
    /\ UNCHANGED notLang

LangNext == DetectLanguage

SpecLang == LangInit /\ [][LangNext]_vars

----------------------------------------------------------------------------
(* Properties of split_text_into_lines *)

\* the stream is ordered by start time, every word has end >= start and no
\* two words overlap
WellFormed(d) ==
    /\ \A k \in 1..Len(d) : d[k].end >= d[k].start
    /\ \A j, k \in 1..Len(d) :
           j < k => d[j].start <= d[k].start /\ d[j].end <= d[k].start

Returned == pc = "done"

Lines == 1..Len(subtitles)

\* the number of words of emitted line k
WordsOf(k) == flushed[k].last - flushed[k].first + 1

\* C1: split_text_into_lines loses, duplicates and reorders no word: for a
\* non-empty stream the result is non-empty and the texts of the lines,
\* joined by single spaces, are the words joined by single spaces; for the
\* empty stream the result is empty.
C1_WordsPreserved ==
    Returned =>
        IF data = <<>>
        THEN subtitles = <<>>
        ELSE /\ subtitles # <<>>
             /\ Join([k \in Lines |-> subtitles[k].text])
                    = Join([k \in 1..Len(data) |-> data[k].word])

C1_Witness ==
    /\ Returned
    /\ Len(data) = 2
    /\ Len(subtitles) = 1
    /\ subtitles[1].text = <<"a", " ", "a", ".">>

\* C2: every emitted line has an accumulated character count of at most
\* max_chars, or it contains exactly one word (stated for well-formed
\* streams, which is all a violation needs).
C2_CharsWithinMaxOrSingleWord ==
    WellFormed(data) =>
        \A k \in Lines : flushed[k].chars <= max_chars \/ WordsOf(k) = 1

\* C3: every emitted line has end - start <= max_duration, or it contains
\* exactly one word (stated for well-formed streams).
C3_DurationWithinMaxOrSingleWord ==
    WellFormed(data) =>
        \A k \in Lines :
            \/ subtitles[k].end - subtitles[k].start <= max_duration
            \/ WordsOf(k) = 1

\* C4: for a stream that is ordered by start time, has end >= start for
\* every word and has no overlapping words, every line has end >= start,
\* the starts of the lines are non-decreasing and the lines are pairwise
\* non-overlapping.
C4_LinesOrderedDisjoint ==
    WellFormed(data) =>
        /\ \A k \in Lines : subtitles[k].end >= subtitles[k].start
        /\ \A j, k \in Lines :
               j < k => /\ subtitles[j].start <= subtitles[k].start
                        /\ subtitles[j].end <= subtitles[k].start

C4_Witness ==
    /\ Returned
    /\ WellFormed(data)
    /\ Len(subtitles) = 2
    /\ subtitles[1].end > subtitles[1].start
    /\ subtitles[2].start > subtitles[1].end

\* C5: every emitted line starts at the start of its first word and ends at
\* the end of its last word; a line flushed by the gap rule therefore ends
\* at the current word's end, not at the next word's start.
C5_LineTimesFromWords ==
    \A k \in Lines :
        /\ subtitles[k].start = data[flushed[k].first].start
        /\ subtitles[k].end = data[flushed[k].last].end
        /\ subtitles[k].text =
               Join([n \in 1..WordsOf(k) |-> data[flushed[k].first + n - 1].word])

\* a line that only the gap rule flushed, before a word that starts later
\* than the line ends
C5_Witness ==
    /\ Returned
    /\ \E k \in Lines :
           LET n == flushed[k].last
           IN  /\ GapToNext(data, n, min_gap)
               /\ ~ CharLimitHit(flushed[k].chars, max_chars)
               /\ ~ DurationLimitHit(data[n].end, subtitles[k].start, max_duration)
               /\ ~ is_sentence_end(data[n].word)
               /\ subtitles[k].end < data[n + 1].start

\* C6: a word whose own length exceeds max_chars is emitted as a line of
\* its own, wherever it occurs in the stream (stated for well-formed
\* streams).
C6_LongWordOwnLine ==
    (Returned /\ WellFormed(data)) =>
        \A n \in 1..Len(data) :
            Len(data[n].word) > max_chars =>
                \E k \in Lines : flushed[k].first = n /\ flushed[k].last = n

----------------------------------------------------------------------------
(* Properties of compose_video and get_random_subclip_and_slow *)

\* get_random_subclip_and_slow has returned the background clip
BackgroundReady == cpc \in {"captions", "video", "audio", "export", "done"}

\* the composition has been built / has been given its audio tracks
VideoBuilt == cpc \in {"audio", "export", "done"}

AudioBuilt == cpc \in {"export", "done"}

\* narration duration, plus the title duration if a title is present
TotalDuration ==
    voiceover_duration + (IF TextGiven(title_text) THEN TITLE_DURATION ELSE 0)

Within(clip, total) == 0 <= clip.start /\ clip.start <= clip.end /\ clip.end <= total

\* C7: for every narration duration (zero included) and every footage
\* duration, the composition built by compose_video lasts the narration
\* duration plus TITLE_DURATION with a title, the narration duration without.
C7_CompositionDuration ==
    VideoBuilt => final_video[1].duration = TotalDuration

\* C8: in every composition built by compose_video the windows of the title
\* overlay, of every shifted caption clip, of the narration track and of the
\* music track lie within [0, total duration].
C8_WindowsWithinTotal ==
    AudioBuilt =>
        /\ \A k \in 1..Len(title_clip) : Within(title_clip[k], TotalDuration)
        /\ \A k \in 1..Len(subtitle_clips) :
               Within(subtitle_clips[k], TotalDuration)
        /\ \A k \in 1..Len(audio_clips) : Within(audio_clips[k], TotalDuration)

\* C9: when the slowed footage, of positive duration, is not longer than the
\* required duration, the function loops: the repetitions make the
\* concatenation strictly longer than the required duration, and the clip
\* returned after trimming has exactly the required duration.
C9_LoopCoversAndTrims ==
    (BackgroundReady /\ background.slowed > 0
                     /\ background.slowed <= background.target) =>
        /\ background.branch = "loop"
        /\ background.concat = background.repeats * background.slowed
        /\ background.concat > background.target
        /\ background.duration = background.target

\* three repetitions, trimmed
C9_Witness ==
    /\ BackgroundReady
    /\ background.branch = "loop"
    /\ background.repeats = 3
    /\ background.concat > background.duration

\* C10: when the slowed footage is longer than the required duration, every
\* start offset the function chooses satisfies 0 <= offset <= slowed -
\* required, so the window [offset, offset + required] lies inside the slowed
\* footage and has exactly the required duration.
C10_OffsetInsideFootage ==
    /\ (BackgroundReady /\ background.branch = "subclip") =>
           /\ background.slowed > background.target
           /\ 0 <= background.start_time
           /\ background.start_time <= background.slowed - background.target
           /\ background.start_time + background.target <= background.slowed
           /\ background.duration = background.target
    /\ (BackgroundReady /\ background.slowed > background.target
                        /\ Truthy(background.target)) =>
           background.branch = "subclip"

\* the latest offset there is
C10_Witness ==
    /\ BackgroundReady
    /\ background.branch = "subclip"
    /\ background.start_time > 0
    /\ background.start_time = background.slowed - background.target

\* C14: with a title, the title overlay occupies [0, TITLE_DURATION], the
\* narration starts at TITLE_DURATION and every caption clip has its start
\* and its end later by exactly TITLE_DURATION, so durations and order are
\* kept; without a title (None or the empty text) there is no overlay and the
\* narration and the captions keep their original times.
C14_TitleShiftsTimeline ==
    /\ final_video # None =>
           /\ title_clip = IF TextGiven(title_text)
                           THEN Some([start |-> 0, end |-> TITLE_DURATION])
                           ELSE None
           /\ Len(subtitle_clips) = Len(subtitles)
           /\ \A k \in 1..Len(subtitles) :
                  IF TextGiven(title_text)
                  THEN /\ subtitle_clips[k].start =
                              subtitles[k].start + TITLE_DURATION
                       /\ subtitle_clips[k].end =
                              subtitles[k].end + TITLE_DURATION
                  ELSE /\ subtitle_clips[k].start = subtitles[k].start
                       /\ subtitle_clips[k].end = subtitles[k].end
    /\ audio_clips # <<>> =>
           /\ audio_clips[1].track = "voiceover"
           /\ audio_clips[1].start =
                  IF TextGiven(title_text) THEN TITLE_DURATION ELSE 0

\* a composition with a title and two captions of positive duration, the
\* second one later than the first
C14_Witness ==
    /\ cpc = "done"
    /\ TextGiven(title_text)
    /\ Len(subtitle_clips) = 2
    /\ subtitles[1].start < subtitles[1].end
    /\ subtitles[1].end <= subtitles[2].start
    /\ subtitles[2].start < subtitles[2].end
    /\ subtitle_clips[2].end = subtitles[2].end + TITLE_DURATION
    /\ audio_clips[1].start = TITLE_DURATION

\* the audio step of compose_video is over: the tracks are built or the
\* step has raised
AudioStepOver ==
    final_video # None /\ cpc \in {"export", "done", "raised"}

\* C15: with an existing music file of positive duration, the music track
\* covers exactly [0, duration of the composition], whether the file is
\* shorter than, as long as or longer than the composition, at a gain
\* strictly lower than the narration's; the narration track is always
\* present at full gain.
C15_MusicCoversComposition ==
    AudioStepOver =>
        /\ audio_clips # <<>>
        /\ audio_clips[1].track = "voiceover"
        /\ audio_clips[1].volume = VOICEOVER_VOLUME
        /\ (music_duration # None /\ music_duration[1] > 0) =>
               /\ cpc # "raised"
               /\ Len(audio_clips) = 2
               /\ audio_clips[2].track = "music"
               /\ audio_clips[2].start = 0
               /\ audio_clips[2].end = final_video[1].duration
               /\ audio_clips[2].volume < audio_clips[1].volume

\* C16: when the footage has zero length, the composition fails with an
\* error reported to the caller, for every required duration, zero included:
\* get_random_subclip_and_slow raises, compose_video never completes and
\* generate_complete_video returns success = False.
C16_ZeroFootageFails ==
    footage_duration = 0 =>
        /\ cpc \in {"background", "raised"}
        /\ \A k \in 1..Len(result) : ~ result[k].success

----------------------------------------------------------------------------
(* Properties of the frame size *)

\* adapt_vertical_to_format has returned
Adapted == fpc \in {"even", "composite", "done"}

\* the aspect ratio of the footage differs from the target aspect ratio by
\* less than 1% of the target aspect ratio
RelativelyClose(tw, th, sw, sh) == 100 * Abs(sw * th - tw * sh) < tw * sh

\* C11: adapt_vertical_to_format only resizes, without cropping, whenever the
\* aspect ratios of the footage and of the target differ by less than 1% in
\* relative difference, and crops whenever they differ by 1% or more.
C11_ResizeOnlyIffRelativelyClose ==
    Adapted =>
        (adapted.path = "resize" <=>
             RelativelyClose(target_size[1], target_size[2],
                             source_size[1], source_size[2]))

\* C12: for the aspect ratios 9:16 and 4:5 adapt_vertical_to_format zooms in
\* by 5% and re-crops around the centre to exactly the target size, for every
\* size of the footage; for 16:9 and 1:1 there is no zoom.
C12_ZoomForPortraitRatios ==
    Adapted =>
        /\ clip_size = target_size
        /\ aspect_ratio \in {"9:16", "4:5"} => adapted.zoomed
        /\ aspect_ratio \in {"16:9", "1:1"} => ~ adapted.zoomed

\* C13: both dimensions of the frame of the composition are even for every
\* aspect ratio and quality, the unknown ones included; ensure_even_dimensions
\* takes exactly one from an odd dimension and leaves an even one unchanged.
C13_FrameDimensionsEven ==
    /\ fpc = "done" =>
           /\ frame_size[1] > 0 /\ frame_size[1] % 2 = 0
           /\ frame_size[2] > 0 /\ frame_size[2] % 2 = 0
    /\ \A k \in 1..Len(even_clip) : \A d \in 1..2 :
           /\ source_size[d] % 2 = 1 => even_clip[k][d] = source_size[d] - 1
           /\ source_size[d] % 2 = 0 => even_clip[k][d] = source_size[d]

\* a composition of an unknown aspect ratio, and a footage with one odd and
\* one even side made even
C13_Witness ==
    /\ fpc = "done"
    /\ aspect_ratio \notin DOMAIN ASPECT_RATIO_DIMENSIONS
    /\ even_clip # None
    /\ source_size[1] % 2 = 1
    /\ source_size[2] % 2 = 0
    /\ even_clip[1] = <<source_size[1] - 1, source_size[2]>>

----------------------------------------------------------------------------
(* Properties of generate_tts_audio *)

\* generate_tts_audio has returned
TtsReturned == tpc = "returned"

\* the call left the key rotation as it found it and did no work
NothingDone ==
    /\ synthesis_calls = 0
    /\ files_written = 0
    /\ current_api_key_index = entry.index

\* a text that is empty or has only blanks
BlankText(t) == \A k \in 1..Len(t) : t[k] = " "

\* C17: once config.GENERATION_CANCELLED is set, every later call of
\* generate_tts_audio returns (None, "Generation cancelled by user") before
\* the synthesis call, before any file is written and without changing the
\* key index; a flag set while the synthesis is in flight does not interrupt
\* the call.
C17_CancelledCallsReturnAtEntry ==
    /\ (tpc = "synthesis") => ~ entry.cancelled
    /\ (TtsReturned /\ entry.cancelled) =>
           /\ tts_result = TtsReturn(None, CancelledStatus)
           /\ NothingDone
    /\ (TtsReturned /\ ~ entry.cancelled /\ config_cancelled
                    /\ voice_name \in AVAILABLE_VOICES
                    /\ ~ BlankText(text_input)) =>
           synthesis_calls = 1

\* C19: an error is classified as quota / rate limit when its message
\* contains a quota indicator and as authentication when it contains an
\* authentication indicator, whatever the case of its letters; no message is
\* classified as both, and the status of a quota failure differs from the
\* status of an authentication failure.
C19_ErrorClassesDistinct ==
    /\ \A k \in 1..Len(error_message) :
           ~ (is_quota_error(error_message[k])
                  /\ is_auth_error(error_message[k]))
    /\ \A p, q \in signals :
           (p.quota /\ ~ p.auth /\ q.auth /\ ~ q.quota) =>
               p.status # q.status

\* an unknown voice name, or an empty or whitespace-only text
InvalidInput == voice_name \notin AVAILABLE_VOICES \/ BlankText(text_input)

\* C20: for an unknown voice name and for an empty or whitespace-only text
\* generate_tts_audio returns (None, message) at once: no synthesis call, no
\* retry, no file written, the key index unchanged; the message names the
\* voice, or says that the text is empty.
C20_ValidationErrorsAtOnce ==
    /\ (tpc = "synthesis") => ~ InvalidInput
    /\ (TtsReturned /\ InvalidInput) =>
           /\ tts_result[1].audio_path = None
           /\ NothingDone
           /\ ~ GENERATION_CANCELLED[1] =>
                  tts_result[1].status =
                      IF voice_name \notin AVAILABLE_VOICES
                      THEN InvalidVoiceStatus(voice_name)
                      ELSE EmptyTextStatus

\* a whitespace-only text with a known voice, refused after a call that
\* rotated the key
C20_Witness ==
    /\ TtsReturned
    /\ voice_name \in AVAILABLE_VOICES
    /\ text_input = <<" ">>
    /\ tts_result = TtsReturn(None, EmptyTextStatus)
    /\ signals # {}
    /\ saved_index = Some(current_api_key_index)

----------------------------------------------------------------------------
(* Properties of the batch operations *)

\* C18: every batch operation processes all n scripts whatever scripts fail,
\* in every workflow mode: it never stops before the end, it produces exactly
\* n outcomes in the order of the scripts, and the success count it reports
\* is the number of successful outcomes.
C18_BatchProcessesAllItems ==
    /\ bpc # "raised"
    /\ bpc = "done" =>
           /\ Len(results) = Len(scripts)
           /\ \A k \in 1..Len(results) : results[k].script = k
           /\ successful =
                  Some(Cardinality({ k \in 1..Len(results) :
                                       results[k].success }))

----------------------------------------------------------------------------
(* Properties of generate_complete_video *)

\* the outcomes of a stage that let the pipeline go on
Passed == {"ok", "found", "none"}

\* every stage of the pipeline has run and has succeeded; the music is
\* optional
AllStagesSucceeded ==
    /\ Len(stages) = 5
    /\ \A k \in 1..Len(stages) : stages[k].outcome \in Passed
    /\ stages[3].outcome = "found"

\* C21: generate_tts_audio and generate_complete_video never raise when the
\* synthesis, the transcription, the file selection or the rendering fails:
\* the failure is returned as a result marked failed with a message (audio
\* path None, success False), and success is reported only when every stage
\* has succeeded.
C21_FailuresAreReturned ==
    /\ (tpc = "returned" /\ error_message # None) =>
           /\ tts_result # None
           /\ tts_result[1].audio_path = None
           /\ tts_result[1].status.text \in
                  {"API error (key rotated): ", "Generation failed: "}
    /\ (tpc = "returned" /\ tts_result[1].audio_path # None) =>
           /\ error_message = None
           /\ files_written = 1
    /\ (gpc = "returned") =>
           /\ gresult # None
           /\ gresult[1].success <=> AllStagesSucceeded
           /\ ~ gresult[1].success =>
                  /\ gresult[1].video_path = None
                  /\ gresult[1].message # "Video generated successfully"
    /\ (gpc \notin {"returned", "idle"}) =>
           /\ gresult = None
           /\ \A k \in 1..Len(stages) : stages[k].outcome \in Passed

\* the rendering raises after every other stage has succeeded, and the
\* function returns a failure
C21_Witness ==
    /\ gpc = "returned"
    /\ Len(stages) = 5
    /\ stages[5] = Stage("compose", "raises")
    /\ gresult = FailureResult("Video generation failed")
    /\ tts_result[1].audio_path # None

----------------------------------------------------------------------------
(* Properties of format_time *)

\* the number that the decimal digits s[from..to] write
RECURSIVE NumberAt(_, _, _)
NumberAt(s, from, to) ==
    IF to < from THEN 0
    ELSE 10 * NumberAt(s, from, to - 1)
             + (CHOOSE v \in 0..9 : DecimalDigits[v + 1] = s[to])

\* C22: format_time renders a time of t milliseconds as HH:MM:SS,mmm with
\* HH = t div 3600000, MM = (t div 60000) mod 60, SS = (t div 1000) mod 60
\* and mmm = t mod 1000, zero-padded to 2, 2, 2 and 3 digits, with a comma
\* before the milliseconds; 12.345 s gives 00:00:12,345 and 3661.0 s gives
\* 01:01:01,000.
C22_SrtTimeFormat ==
    \A k \in 1..Len(srt_time) :
        LET s == srt_time[k]
        IN  /\ Len(s) = 12
            /\ s[3] = ":" /\ s[6] = ":" /\ s[9] = ","
            /\ NumberAt(s, 1, 2) = seconds \div 3600000
            /\ NumberAt(s, 4, 5) = (seconds \div 60000) % 60
            /\ NumberAt(s, 7, 8) = (seconds \div 1000) % 60
            /\ NumberAt(s, 10, 12) = seconds % 1000

\* the text has a character of the family
HasFamily(family) ==
    \E k \in 1..Len(lang_text) :
        CASE family = "cjk" -> IsCjk(lang_text[k])
          [] family = "devanagari" -> IsDevanagari(lang_text[k])
          [] family = "arabic" -> IsArabic(lang_text[k])

FamilyPriority == <<"cjk", "devanagari", "arabic">>

\* C23: detect_language returns the first family, in the order cjk,
\* devanagari, arabic, of which the text has a character, whatever
\* other families the text has, and latin when the text is empty or has
\* a character of none of them.
C23_FirstFamilyInPriority ==
    \A r \in 1..Len(language) :
        /\ \A p \in 1..3 :
               (/\ HasFamily(FamilyPriority[p])
                /\ \A q \in 1..(p - 1) : ~HasFamily(FamilyPriority[q]))
               => language[r] = FamilyPriority[p]
        /\ (\A p \in 1..3 : ~HasFamily(FamilyPriority[p]))
               => language[r] = "latin"

\* a text with a character of each family, arabic first, was classified
C23_Witness ==
    /\ language # None
    /\ Len(lang_text) = 3
    /\ IsArabic(lang_text[1])
    /\ IsDevanagari(lang_text[2])
    /\ IsCjk(lang_text[3])

\* the first word of the line that word n was appended to
LineFirst(n) ==
    IF \E k \in 1..Len(flushed) : flushed[k].first <= n /\ n <= flushed[k].last
    THEN flushed[CHOOSE k \in 1..Len(flushed) :
                     flushed[k].first <= n /\ n <= flushed[k].last].first
    ELSE i - Len(current_line)

\* the characters of the words from..to, one more for each word
RECURSIVE CharsBetween(_, _)
CharsBetween(from, to) ==
    IF from > to THEN 0
    ELSE Len(data[from].word) + 1 + CharsBetween(from + 1, to)

\* the last character of the word is a sentence-terminal character
TrailingTerminal(word) ==
    /\ word # <<>>
    /\ word[Len(word)] \in {".", "!", "?", "U3002", "UFF01", "UFF1F", "U0964"}

\* one of the five reasons to end the line after word n
FlushReason(n) ==
    \/ CharsBetween(LineFirst(n), n) >= max_chars
    \/ data[n].end - data[LineFirst(n)].start >= max_duration
    \/ TrailingTerminal(data[n].word)
    \/ (n < Len(data) /\ data[n + 1].start - data[n].end >= min_gap)
    \/ n = Len(data)

FlushedAfter(n) == \E k \in 1..Len(flushed) : flushed[k].last = n

ExampleStream ==
    [k \in 1..3 |-> [word |-> ExampleWords[k], start |-> ExampleTimes[k][1],
                     end |-> ExampleTimes[k][2]]]

ExampleRun ==
    /\ data = ExampleStream
    /\ max_chars = 60
    /\ max_duration = 25
    /\ min_gap = 15
    /\ pc = "done"

\* C24: split_text_into_lines ends the line after a word exactly when the
\* accumulated characters reach max_chars, or the word ends max_duration
\* or more after the start of the line, or the word ends with a
\* sentence-terminal character, or the next word starts min_gap or more
\* after the word ends, or the word is the last of the stream; so a word
\* that is not the last of its line has none of these, and a terminal
\* character inside a word ends no line.  Hi there friend. at 0-0.3,
\* 0.3-0.7, 0.7-1.3 with 60, 2.5, 1.5 is the one line "Hi there friend."
\* from 0 to 1.3.
C24_FlushExactlyOnReason ==
    /\ \A n \in 1..(i - 1) : FlushedAfter(n) <=> FlushReason(n)
    /\ ExampleRun =>
           subtitles = << [text |-> Join(SubSeq(ExampleWords, 1, 3)),
                           start |-> 0, end |-> 13] >>

\* the example stream was segmented, and so was a stream in which  o.k
\* is followed by another word on the same line
C24_Witness ==
    /\ pc = "done"
    /\ \/ ExampleRun /\ Len(subtitles) = 1
       \/ \E n \in 1..(Len(data) - 1) :
              /\ data[n].word = ExampleWords[4]
              /\ ~FlushedAfter(n)

\* adapt_vertical_to_format took the crop branch
Cropped ==
    /\ fpc \in {"even", "composite", "done", "raised"}
    /\ adapted.path \in {"crop_width", "crop_height"}

\* the side of the footage that the crop shortens
CroppedSide == IF adapted.path = "crop_width" THEN source_size[1]
                                              ELSE source_size[2]

\* C25: when adapt_vertical_to_format crops, it crops the width of a
\* footage wider than the target ratio and the height of a taller one; the
\* crop is centred and inside the frame of the footage (offset >= 0,
\* offset + cropped size <= size of the footage, cropped size >= 1) for
\* every size of the footage and of the target; the clip returned has
\* exactly the size of the target.
C25_CropInsideSourceFrame ==
    /\ Cropped =>
           /\ adapted.path = "crop_width" <=>
                  source_size[1] * target_size[2] > target_size[1] * source_size[2]
           /\ adapted.crop_size >= 1
           /\ adapted.crop_offset >= 0
           /\ adapted.crop_offset + adapted.crop_size <= CroppedSide
           /\ Abs(CroppedSide - adapted.crop_size - 2 * adapted.crop_offset) <= 1
    /\ Adapted => clip_size = target_size

\* the call ended in a synthesis failure that the rotation is made for
RotatableFailure ==
    /\ use_rotation
    /\ error_message # None
    /\ \A k \in 1..Len(error_message) : should_rotate_key(error_message[k])

\* C26: a call of generate_tts_audio changes the current key index only
\* when use_rotation is True and the synthesis fails with a quota,
\* rate-limit or authentication error: then the index advances by exactly
\* one modulo the number of keys and the call makes no second attempt; in
\* every other outcome, and in every call with use_rotation False, the
\* index after the call is the index before it.
C26_IndexChangesOnlyOnRotation ==
    TtsReturned =>
        /\ RotatableFailure =>
               /\ current_api_key_index = (entry.index + 1) % NumKeys
               /\ synthesis_calls = 1
        /\ ~RotatableFailure => current_api_key_index = entry.index

\* C27: with at least one key, after any sequence of load_api_key (whatever
\* the index file holds, also when it is missing, cannot be parsed or
\* holds an index out of range), get_next_api_key, get_current_api_key,
\* get_api_rotation_status and reset_api_key_rotation, the current key
\* index is at least 0 and less than the number of keys, and as many
\* consecutive calls of get_next_api_key as there are keys return every
\* key exactly once and bring the index back to where it started.
C27_IndexInRangeAndFullCycle ==
    kpc = "ready" =>
        /\ 0 <= current_api_key_index
        /\ current_api_key_index < NumKeys
        /\ Len(key_returns) = NumKeys =>
               /\ \A p \in 0..(NumKeys - 1) :
                      Cardinality({k \in 1..NumKeys : key_returns[k] = p}) = 1
               /\ current_api_key_index = key_start

\* generate_batch_videos was called without an output_filename and has
\* processed item k
RenderedByBatch(k) ==
    /\ batch_op = "generate_batch_videos"
    /\ k \in 1..Len(results)
    /\ results[1].output # Some(0)

\* C28: when generate_batch_videos is called without an output_filename,
\* item i is rendered to a file name that carries its own index i, so no
\* two items of a batch are written to the same path.
C28_OutputFilenamePerItem ==
    \A k \in 1..Len(results) :
        RenderedByBatch(k) =>
            /\ results[k].output = Some(k)
            /\ \A j \in 1..Len(results) :
                   j # k => results[j].output # results[k].output

----------------------------------------------------------------------------
(* Properties of the workflows *)

\* the steps of a pipeline, in order
PipelineOrder == <<"voiceover", "subtitle", "video">>

\* the workflow function has returned a dictionary with success True
WorkflowSucceeded == wpc = "returned" /\ wf_result = Some(TRUE)

\* C29: in PIPELINE mode a workflow started by execute_voiceover_workflow
\* goes through voiceover, subtitle and video in this order without
\* repeating a step, sends nothing at the voiceover and subtitle steps and
\* in the end sends the video; in STANDALONE mode a workflow sends the
\* result of its own step and does not go on to another step.
C29_PipelineSendsFinalResult ==
    /\ (wf_entry = "voiceover" /\ wf_mode = "pipeline") =>
           /\ steps = SubSeq(PipelineOrder, 1, Len(steps))
           /\ \A k \in 1..Len(sent) : sent[k] = "video"
           /\ WorkflowSucceeded => sent = <<"video">>
    /\ wf_mode = "standalone" =>
           /\ \A k \in 1..Len(steps) : steps[k] = wf_entry
           /\ Len(steps) <= 1
           /\ WorkflowSucceeded => sent = <<wf_entry>>

----------------------------------------------------------------------------
(* Properties of the key rotation under threads *)

\* both threads have returned from get_next_api_key
BothRotated == \A t \in DOMAIN thread_pc : thread_pc[t] = "done"

\* C30: when the bot processes two messages in two threads and both
\* synthesis calls fail with an error that rotates the key, no rotation
\* is lost whatever the interleaving: after both calls of
\* get_next_api_key the shared index has advanced by two modulo the number
\* of keys, and the index saved in the file is the index in memory.
C30_NoRotationLost ==
    (thread_pc # <<>> /\ BothRotated) =>
        /\ current_api_key_index = (race_start + 2) % NumKeys
        /\ saved_index = Some(current_api_key_index)

=============================================================================
